---- MODULE Spec2Model ----
(***************************************************************************)
(* Remote-backed cache and reconciliation engine of ganeti_webmgr           *)
(* (ganeti/models.py): the RAPI client registry (get_rapi), the cached      *)
(* cluster object (load_info / refresh / save) and its three adapters       *)
(* Cluster, VirtualMachine and Job.                                         *)
(***************************************************************************)
EXTENDS Integers, Sequences, FiniteSets, TLC

(***************************************************************************)
(* Python's None and optional values: None is the empty tuple, a present    *)
(* value x is <<x>>.                                                        *)
(***************************************************************************)
None == <<>>

Some(x) == <<x>>

Val(o) == o[1]

(***************************************************************************)
(* Bounds of the model.                                                     *)
(***************************************************************************)
MaxTime == 2

MaxMtime == 2

MaxClients == 3

\* the primary keys the VirtualMachine table hands out
MaxPk == 4

(***************************************************************************)
(* settings.LAZY_CACHE_REFRESH, in clock ticks.                             *)
(***************************************************************************)
LAZY_CACHE_REFRESH == 1

(***************************************************************************)
(* State.                                                                   *)
(*   clusters           the Cluster rows' connection columns, by id         *)
(*   RAPI_CACHE         fingerprint -> client handle                        *)
(*   RAPI_CACHE_HASHES  cluster id -> fingerprint its handle was stored at  *)
(*   nclients           number of client handles constructed so far         *)
(*   held               the fingerprints in-memory objects may still carry  *)
(*                      for each cluster (Cluster.hash, cluster_hash)       *)
(*   kind               the entity class under observation                  *)
(*   db                 the entity's row in the record store (None: no row) *)
(*   obj                the in-memory model instance (None: no instance)    *)
(*   now                datetime.now()                                      *)
(*   last               what the last call did: its remote calls, whether   *)
(*                      it raised, what it returned                         *)
(*   workers            the threads inside get_rapi: where each one is and  *)
(*                      its local variables                                 *)
(*   virtual_machines   the rows of the VirtualMachine table, of every      *)
(*                      cluster                                             *)
(*   pk                 the last primary key the table handed out           *)
(*   jobs               the rows of the Job table, of every cluster         *)
(*   backend            the remote side: the modification time the observed *)
(*                      entity has there                                    *)
(***************************************************************************)
VARIABLES clusters, RAPI_CACHE, RAPI_CACHE_HASHES, nclients, held,
          kind, db, obj, now, last, workers, virtual_machines, pk, jobs,
          backend, plugins, site

vars == <<clusters, RAPI_CACHE, RAPI_CACHE_HASHES, nclients, held,
          kind, db, obj, now, last, workers, virtual_machines, pk, jobs,
          backend, plugins, site>>

registryVars == <<clusters, RAPI_CACHE, RAPI_CACHE_HASHES, nclients, held>>

entityVars == <<kind, db, obj, now>>

\* a thread that is not inside get_rapi
Workers == {1, 2}

Idle ==
    [pc |-> "idle", hash |-> None, row |-> None, previous |-> None,
     rapi |-> None, raised |-> None]

raceVars == <<workers, backend>>

syncVars == <<virtual_machines, pk, jobs>>

\* the plugin classes and instances, and the site the views serve
appVars == <<plugins, site>>

\* the site before any request: no node operation started, no job loaded,
\* no log entry, a group without members, no signal sent
NoRequests ==
    [started |-> <<>>, loaded |-> {}, log |-> <<>>, user_set |-> <<>>,
     signals |-> <<>>]

(***************************************************************************)
(* Strings are tuples of one-character strings, so that '%s%s%s%s' is       *)
(* concatenation.                                                           *)
(***************************************************************************)
DigitChars == <<"0", "1", "2", "3", "4", "5", "6", "7", "8", "9">>

RECURSIVE StrInt(_)
StrInt(n) == IF n < 10 THEN <<DigitChars[n + 1]>>
             ELSE StrInt(n \div 10) \o <<DigitChars[(n % 10) + 1]>>

\* '%s' of an optional string: None prints as 'None'
StrOpt(o) == IF o = None THEN <<"N", "o", "n", "e">> ELSE Val(o)

\* sha1(...).hexdigest(): a digest, taken to be collision free
sha1(s) == [sha1 |-> s]

create_hash(c) ==
    sha1(StrOpt(c.username) \o StrOpt(c.password) \o c.hostname \o StrInt(c.port))

(***************************************************************************)
(* The connection registry.                                                 *)
(***************************************************************************)
ClusterIds == {1, 2}

\* the connection columns the Cluster rows take: hostname is unique per row;
\* cluster 1 has its password and port edited, cluster 2 keeps its credentials.
\* 'h' + '15080' and 'h1' + '5080' are the same text.
Hostnames == (1 :> <<"h">>) @@ (2 :> <<"h", "1">>)

Ports(c) == IF c = 1 THEN {5080, 15080} ELSE {5080}

Usernames == {Some(<<"u">>)}

Passwords(c) == IF c = 1 THEN {Some(<<"p">>), Some(<<"q">>)} ELSE {Some(<<"p">>)}

Credentials(c) ==
    [username : Usernames, password : Passwords(c),
     hostname : {Hostnames[c]}, port : Ports(c)]

\* the row written by Cluster.save(): the hash column is recomputed first
ClusterRow(cred) ==
    [hash |-> create_hash(cred), hostname |-> cred.hostname, port |-> cred.port,
     username |-> cred.username, password |-> cred.password]

\* user if user else None: an empty string counts as no value
OrNone(o) == IF o = None \/ o = Some(<<>>) THEN None ELSE o

\* client.GanetiRapiClient(host, port, user, password): handle number n
GanetiRapiClient(host, port, user, password, n) ==
    [host |-> host, port |-> port, user |-> user, password |-> password, n |-> n]

RemoveKey(f, k) == [x \in (DOMAIN f) \ {k} |-> f[x]]

SetKey(f, k, v) == (k :> v) @@ f

Registry == [cache |-> RAPI_CACHE, hashes |-> RAPI_CACHE_HASHES, n |-> nclients]

\* the outcome of a call of get_rapi that returns
Returned(rapi, reg, read, built) ==
    [rapi |-> Some(rapi), cache |-> reg.cache, hashes |-> reg.hashes, n |-> reg.n,
     read |-> read, built |-> built, raised |-> None]

\* the outcome of a call of get_rapi that raises after reading the store
Raised(exc, reg) ==
    [rapi |-> None, cache |-> reg.cache, hashes |-> reg.hashes, n |-> reg.n,
     read |-> TRUE, built |-> FALSE, raised |-> Some(exc)]

\* get_rapi without its first lookup (lines 53-54): every call re-reads the store
get_rapi_NoFirstLookup(hash, cluster, reg, rows) ==
    IF cluster \notin DOMAIN rows
    THEN Raised("ValueError", reg)
    ELSE LET row   == rows[cluster]
             fresh == row.hash
         IN  IF fresh \in DOMAIN reg.cache
             THEN Returned(reg.cache[fresh], reg, TRUE, FALSE)
             ELSE LET evicted == IF cluster \in DOMAIN reg.hashes
                                 THEN RemoveKey(reg.cache, reg.hashes[cluster])
                                 ELSE reg.cache
                      rapi    == GanetiRapiClient(row.hostname, row.port,
                                                  OrNone(row.username),
                                                  OrNone(row.password), reg.n + 1)
                  IN  Returned(rapi,
                               [cache  |-> SetKey(evicted, fresh, rapi),
                                hashes |-> SetKey(reg.hashes, cluster, fresh),
                                n      |-> reg.n + 1],
                               TRUE, TRUE)

\* get_rapi without lines 74-75: the previous client of the cluster stays
get_rapi_NoEvict(hash, cluster, reg, rows) ==
    IF hash \in DOMAIN reg.cache
    THEN Returned(reg.cache[hash], reg, FALSE, FALSE)
    ELSE IF cluster \notin DOMAIN rows
    THEN Raised("ValueError", reg)
    ELSE IF rows[cluster].hash \in DOMAIN reg.cache
    THEN Returned(reg.cache[rows[cluster].hash], reg, TRUE, FALSE)
    ELSE Returned(GanetiRapiClient(rows[cluster].hostname, rows[cluster].port,
                                   OrNone(rows[cluster].username),
                                   OrNone(rows[cluster].password), reg.n + 1),
                  [cache  |-> SetKey(reg.cache, rows[cluster].hash,
                                     GanetiRapiClient(rows[cluster].hostname,
                                                      rows[cluster].port,
                                                      OrNone(rows[cluster].username),
                                                      OrNone(rows[cluster].password),
                                                      reg.n + 1)),
                   hashes |-> SetKey(reg.hashes, cluster, rows[cluster].hash),
                   n      |-> reg.n + 1],
                  TRUE, TRUE)

get_rapi(hash, cluster, reg, rows) ==
    IF hash \in DOMAIN reg.cache
    THEN Returned(reg.cache[hash], reg, FALSE, FALSE)
    ELSE IF cluster \notin DOMAIN rows
    THEN Raised("ValueError", reg)
    ELSE LET row      == rows[cluster]
             fresh    == row.hash
             user     == OrNone(row.username)
             password == OrNone(row.password)
         IN  IF fresh \in DOMAIN reg.cache
             THEN Returned(reg.cache[fresh], reg, TRUE, FALSE)
             ELSE IF cluster \in DOMAIN reg.hashes
                     /\ reg.hashes[cluster] \notin DOMAIN reg.cache
             THEN Raised("KeyError", reg)
             ELSE LET evicted == IF cluster \in DOMAIN reg.hashes
                                 THEN RemoveKey(reg.cache, reg.hashes[cluster])
                                 ELSE reg.cache
                      rapi    == GanetiRapiClient(row.hostname, row.port, user,
                                                  password, reg.n + 1)
                  IN  Returned(rapi,
                               [cache  |-> SetKey(evicted, fresh, rapi),
                                hashes |-> SetKey(reg.hashes, cluster, fresh),
                                n      |-> reg.n + 1],
                               TRUE, TRUE)

\* the registry and the record of the call after get_rapi returned or raised r
Registered(c, h, r) ==
    /\ r.n <= MaxClients
    /\ RAPI_CACHE' = r.cache
    /\ RAPI_CACHE_HASHES' = r.hashes
    /\ nclients' = r.n
    /\ last' = [op |-> "get_rapi", cluster |-> c, hash |-> h, rapi |-> r.rapi,
                read |-> r.read, built |-> r.built, raised |-> r.raised,
                again |-> /\ last.op = "get_rapi"
                          /\ last.cluster = c
                          /\ last.hash = h
                          /\ last.raised = None]
    /\ UNCHANGED <<clusters, held, entityVars, raceVars, syncVars, appVars>>

\* get_rapi called by some in-memory object of cluster c that carries fingerprint h
GetRapi(c, h) == Registered(c, h, get_rapi(h, c, Registry, clusters))

\* a post_save handler that leaves the rows of the cluster as they are
update_cluster_hash_Keep(rows, c, hash) == rows

\* instance.virtual_machines.all().update(cluster_hash=instance.hash), and
\* the same on instance.jobs
update_cluster_hash(rows, c, hash) ==
    {IF row.cluster = c THEN [row EXCEPT !.cluster_hash = hash] ELSE row :
        row \in rows}

\* Cluster.save() after its connection fields were edited, and the post_save
\* handler update_cluster_hash that rewrites cluster_hash on its rows
SaveCluster(c, cred) ==
    /\ clusters' = [clusters EXCEPT ![c] = ClusterRow(cred)]
    /\ virtual_machines' =
         update_cluster_hash(virtual_machines, c, ClusterRow(cred).hash)
    /\ jobs' = update_cluster_hash(jobs, c, ClusterRow(cred).hash)
    /\ held' = [held EXCEPT ![c] = @ \cup {create_hash(cred)}]
    /\ last' = [op |-> "save_cluster", cluster |-> c,
                changed |-> create_hash(cred) # clusters[c].hash,
                previous |-> clusters[c].hash]
    /\ UNCHANGED <<RAPI_CACHE, RAPI_CACHE_HASHES, nclients, entityVars, raceVars, pk,
                   appVars>>

clear_rapi_cache ==
    /\ RAPI_CACHE' = <<>>
    /\ RAPI_CACHE_HASHES' = <<>>
    /\ last' = [op |-> "clear_rapi_cache"]
    /\ UNCHANGED <<clusters, nclients, held, entityVars, raceVars, syncVars,
                   appVars>>

InitialCredentials(c) ==
    [username |-> Some(<<"u">>), password |-> Some(<<"p">>),
     hostname |-> Hostnames[c], port |-> 5080]

InitRegistry ==
    /\ clusters = [c \in ClusterIds |-> ClusterRow(InitialCredentials(c))]
    /\ RAPI_CACHE = <<>>
    /\ RAPI_CACHE_HASHES = <<>>
    /\ nclients = 0
    /\ held = [c \in ClusterIds |-> {create_hash(InitialCredentials(c))}]
    /\ kind = "Cluster"
    /\ db = None
    /\ obj = None
    /\ now = 0
    /\ last = [op |-> "init"]
    /\ workers = [w \in Workers |-> Idle]
    /\ virtual_machines = {}
    /\ pk = 0
    /\ jobs = {}
    /\ backend = [mtime |-> 1]
    /\ plugins = None
    /\ site = NoRequests

NextRegistry ==
    \/ \E c \in ClusterIds : \E h \in held[c] : GetRapi(c, h)
    \/ \E c \in ClusterIds : \E cred \in Credentials(c) : SaveCluster(c, cred)
    \/ clear_rapi_cache

SpecRegistry == InitRegistry /\ [][NextRegistry]_vars

(***************************************************************************)
(* The cached cluster object.  One entity is observed: the store holds at   *)
(* most its one row, and obj is the instance a caller currently holds.      *)
(* datetimes are clock ticks; a timestamp t of a payload is the datetime t. *)
(***************************************************************************)
Kinds == {"Cluster", "VirtualMachine", "Job"}

\* the cluster the observed entity is, or belongs to
TheCluster == 1

\* ClusterUser ids
OwnerIds == {1, 2}

Owners == {None, Some(1)}

\* the values the owner column can take
AnyOwner == {None} \cup {Some(id) : id \in OwnerIds}

\* the job statuses GetJobStatus reports: running is not final; success, error
\* and canceled are
JobStatuses == {"running", "success", "error", "canceled"}

\* info['beparams']['memory'] of an instance
Memory == 128

\* an instance tag: whether it starts with constants.OWNER_TAG, and the
\* number after the prefix
OwnerTag(id) == [owner_tag |-> TRUE, id |-> id]

\* tag.startswith(constants.OWNER_TAG)
IsOwnerTag(tag) == tag.owner_tag

\* int(tag[len(constants.OWNER_TAG):])
TagId(tag) == tag.id

\* a tag an administrator put on the instance
PlainTag == [owner_tag |-> FALSE, id |-> 0]

OwnerTagValues == {OwnerTag(id) : id \in OwnerIds}

TagValues == OwnerTagValues \cup {PlainTag}

\* what the entity's remote fetch can return: GetInfo(), GetInstance(hostname)
\* or GetJobStatus(id).  ctime is None for every instance (ganeti 2.1).
Payloads(k) ==
    [mtime  : 1..MaxMtime,
     ctime  : IF k = "Cluster" THEN {None, Some(1)} ELSE {None},
     tags   : IF k = "VirtualMachine" THEN SUBSET OwnerTagValues ELSE {{}},
     memory : IF k = "VirtualMachine" THEN {Memory} ELSE {0},
     status : IF k = "Job" THEN JobStatuses ELSE {"n/a"}]

\* GanetiApiError raised by the client, and str(e)
GanetiApiError(msg) == [type |-> "GanetiApiError", msg |-> msg]

Exception(type) == [type |-> type, msg |-> type]

str(e) == e.msg

\* the outcomes of the remote side during one call: the fetch fails or returns
\* a payload, and each tag write succeeds or fails
FetchOutcomes(k) ==
    {[ok |-> FALSE, error |-> GanetiApiError("Connection refused")]}
    \cup {[ok |-> TRUE, info |-> i] : i \in Payloads(k)}

\* DeleteInstanceTags / AddInstanceTags return or raise GanetiApiError; only
\* an instance writes tags
TagOutcomes(k, msg) ==
    {[ok |-> TRUE]}
    \cup IF k = "VirtualMachine"
         THEN {[ok |-> FALSE, error |-> GanetiApiError(msg)]}
         ELSE {}

Remotes(k) ==
    [fetch  : FetchOutcomes(k),
     delete : TagOutcomes(k, "Tag delete failed"),
     add    : TagOutcomes(k, "Tag add failed")]

\* the outcomes a call that fetches nothing depends on
TagRemotes(k) == {r \in Remotes(k) : ~r.fetch.ok}

\* cPickle.dumps / cPickle.loads
dumps(x) == [pickle |-> x]

loads(b) == b.pickle

\* Model.__init__ that drops the ignore_cache keyword: the field default stays
NewObject_DefaultFlag(kw) ==
    [id |-> None, info |-> None, serialized_info |-> None, cached |-> None,
     mtime |-> None, ctime |-> None, error |-> None,
     ignore_cache |-> FALSE, owner_id |-> kw.owner_id,
     ram |-> -1, status |-> None]

\* Model.__init__(**kwargs) of a new record: class attributes and field defaults
NewObject(kw) ==
    [id |-> None, info |-> None, serialized_info |-> None, cached |-> None,
     mtime |-> None, ctime |-> None, error |-> None,
     ignore_cache |-> kw.ignore_cache, owner_id |-> kw.owner_id,
     ram |-> -1, status |-> None]

\* Model.__init__(*row) of a record read from the store: mtime, ctime, error and
\* __info are class attributes, not columns
FromRow(row) ==
    [id |-> Some(1), info |-> None, serialized_info |-> row.serialized_info,
     cached |-> row.cached, mtime |-> None, ctime |-> None, error |-> None,
     ignore_cache |-> row.ignore_cache, owner_id |-> row.owner_id,
     ram |-> row.ram, status |-> None]

\* the columns models.Model.save() writes
ToRow(o) ==
    [serialized_info |-> o.serialized_info, cached |-> o.cached,
     ignore_cache |-> o.ignore_cache, owner_id |-> o.owner_id, ram |-> o.ram]

\* the running call: the instance, the store row, the registry, and what the
\* call has done so far
Call(o, row, reg) ==
    [o |-> o, db |-> row, reg |-> reg, calls |-> <<>>, sent |-> <<>>,
     resolved |-> 0,
     saves |-> 0, updates |-> 0, dumped |-> 0, parsed |-> 0, refreshes |-> 0,
     raised |-> None]

Raise(m, e) == [m EXCEPT !.raised = Some(e)]

\* the info property's getter: deserializes on first access
info(o) ==
    IF o.info = None /\ o.serialized_info # None
    THEN loads(Val(o.serialized_info))
    ELSE o.info

Getter(m) == [m EXCEPT !.o.info = info(m.o)]

\* the registry after a get_rapi call made by the running call
Resolved(m, r) ==
    IF r.raised = None
    THEN [m EXCEPT !.reg = [cache |-> r.cache, hashes |-> r.hashes, n |-> r.n],
                   !.resolved = @ + 1]
    ELSE Raise([m EXCEPT !.resolved = @ + 1], Exception(Val(r.raised)))

\* self.rapi: get_rapi(self.cluster_hash, self.cluster_id)
self_rapi(m) ==
    Resolved(m, get_rapi(clusters[TheCluster].hash, TheCluster, m.reg, clusters))

\* a client method called on the handle self.rapi returned, with the tags it
\* was given: it returns, or raises outcome.error
Called(m, name, tags, outcome) ==
    IF m.raised # None THEN m
    ELSE IF outcome.ok
    THEN [m EXCEPT !.calls = Append(@, name), !.sent = Append(@, tags)]
    ELSE Raise([m EXCEPT !.calls = Append(@, name), !.sent = Append(@, tags)],
               outcome.error)

RemoteCall(m, name, tags, outcome) == Called(self_rapi(m), name, tags, outcome)

FetchCall(k) ==
    CASE k = "Cluster" -> "GetInfo"
      [] k = "VirtualMachine" -> "GetInstance"
      [] k = "Job" -> "GetJobStatus"

\* a fetch that is attempted a second time when it fails
_refresh_Retry(k, m, remote) ==
    IF remote.fetch.ok THEN RemoteCall(m, FetchCall(k), {}, remote.fetch)
    ELSE RemoteCall([RemoteCall(m, FetchCall(k), {}, remote.fetch)
                     EXCEPT !.raised = None],
                    FetchCall(k), {}, remote.fetch)

\* self._refresh(): the fetched payload is remote.fetch.info when it returns
_refresh(k, m, remote) == RemoteCall(m, FetchCall(k), {}, remote.fetch)

\* CachedClusterObject.parse_transient_info, after info_ = self.info
ParseCtime(m) ==
    IF m.o.info = None THEN Raise(m, Exception("TypeError"))
    ELSE IF Val(m.o.info).ctime # None
    THEN [m EXCEPT !.o.ctime = Val(m.o.info).ctime]
    ELSE m

\* Job.parse_transient_info is pass
parse_transient_info(k, m) ==
    IF k = "Job" THEN m ELSE ParseCtime(Getter(m))

\* parse_persistent_info that records the status and never clears the flag
ParseStatus_KeepFlag(m) ==
    [m EXCEPT !.o.status = Some(Val(m.o.info).status)]

\* Job.parse_persistent_info, after info_ = self.info
ParseStatus(m) ==
    IF Val(m.o.info).status \in {"error", "success"}
    THEN [m EXCEPT !.o.status = Some(Val(m.o.info).status),
                   !.o.ignore_cache = FALSE,
                   !.db = IF m.db # None /\ m.o.id # None
                          THEN Some([Val(m.db) EXCEPT !.ignore_cache = FALSE])
                          ELSE m.db,
                   !.updates = @ + 1]
    ELSE [m EXCEPT !.o.status = Some(Val(m.o.info).status)]

\* Job.parse_persistent_info without its test of self.ignore_cache
parse_persistent_info_Unguarded(k, m) ==
    CASE k = "Cluster" ->
           [m EXCEPT !.o.mtime = Some(Val(m.o.info).mtime)]
      [] k = "VirtualMachine" ->
           [m EXCEPT !.o.mtime = Some(Val(m.o.info).mtime),
                     !.o.ram = Val(m.o.info).memory]
      [] k = "Job" -> ParseStatus(Getter(m))

parse_persistent_info(k, m) ==
    CASE k = "Cluster" ->
           [m EXCEPT !.o.mtime = Some(Val(m.o.info).mtime)]
      [] k = "VirtualMachine" ->
           [m EXCEPT !.o.mtime = Some(Val(m.o.info).mtime),
                     !.o.ram = Val(m.o.info).memory]
      [] k = "Job" ->
           IF m.o.ignore_cache THEN ParseStatus(Getter(m)) ELSE m

\* the second half of parse_info
ParsePersistent(k, m) ==
    IF m.raised # None THEN m
    ELSE [parse_persistent_info(k, m) EXCEPT !.parsed = @ + 1]

parse_info(k, m) == ParsePersistent(k, parse_transient_info(k, m))

\* the setter without its last line: the old serialized_info stays
Unserialize_Keep(m) == m

\* the last line of the info property's setter
Unserialize(m) ==
    IF m.raised # None THEN m ELSE [m EXCEPT !.o.serialized_info = None]

\* the info property's setter
SetInfo(k, m, value) ==
    Unserialize(parse_info(k, [m EXCEPT !.o.info = Some(value)]))

\* CachedClusterObject.save(): serialize info if it is not serialized
Serialize(m) ==
    IF m.o.serialized_info = None
    THEN [m EXCEPT !.o.serialized_info = Some(dumps(m.o.info)), !.dumped = @ + 1]
    ELSE m

\* models.Model.save(): write the row; a new record gets its id
WriteRow(m) ==
    [m EXCEPT !.o.id = Some(1),
              !.db = Some(ToRow(m.o)),
              !.saves = @ + 1]

base_save(m) == WriteRow(Serialize(m))

\* the loop without its startswith test: every tag not ending in the owner id
Remove_AnyTag(m) ==
    {tag \in Val(m.o.info).tags : Some(TagId(tag)) # m.o.owner_id}

\* the owner-tag bookkeeping of VirtualMachine.save(): the tags to remove
Remove(m) ==
    {tag \in Val(m.o.info).tags :
        IsOwnerTag(tag) /\ Some(TagId(tag)) # m.o.owner_id}

Found(m) ==
    \E tag \in Val(m.o.info).tags :
        IsOwnerTag(tag) /\ Some(TagId(tag)) = m.o.owner_id

Deleted(m, remove) ==
    IF m.raised # None THEN m
    ELSE [m EXCEPT !.o.info = Some([Val(@) EXCEPT !.tags = @ \ remove])]

DeleteTags(m, remote) ==
    IF Remove(m) = {} THEN m
    ELSE Deleted(RemoteCall(m, "DeleteInstanceTags", Remove(m), remote.delete),
                 Remove(m))

Added(m) ==
    IF m.raised # None THEN m
    ELSE [m EXCEPT !.o.info =
            Some([Val(@) EXCEPT !.tags = @ \cup {OwnerTag(Val(m.o.owner_id))}])]

AddTag(m, found, remote) ==
    IF m.raised # None THEN m
    ELSE IF m.o.owner_id # None /\ ~found
    THEN Added(RemoteCall(m, "AddInstanceTags", {OwnerTag(Val(m.o.owner_id))},
                          remote.add))
    ELSE m

Tags(m, remote) ==
    IF m.o.info = None THEN m
    ELSE AddTag(DeleteTags(m, remote), Found(m), remote)

save_tags(m, remote) == Tags(Getter(m), remote)

\* super(VirtualMachine, self).save(), reached unless a tag call raised
SaveBase(m) == IF m.raised # None THEN m ELSE base_save(m)

\* save() of the three adapters
save(k, m, remote) ==
    IF k = "VirtualMachine" THEN SaveBase(save_tags(m, remote)) ELSE base_save(m)

\* except GanetiApiError, e: self.error = str(e)
Catch(m) ==
    IF m.raised # None /\ Val(m.raised).type = "GanetiApiError"
    THEN [m EXCEPT !.o.error = Some(str(Val(m.raised))), !.raised = None]
    ELSE m

\* objects.filter(pk=self.id).update(cached=self.cached)
update_cached(m) ==
    [m EXCEPT !.db = IF m.db # None /\ m.o.id # None
                     THEN Some([Val(m.db) EXCEPT !.cached = m.o.cached])
                     ELSE m.db,
              !.updates = @ + 1]

\* self.save() after self.info = info_
SaveIfSet(k, m, remote) ==
    IF m.raised # None THEN m ELSE save(k, m, remote)

\* refresh() comparing with >= : an unchanged remote counts as an update
Compare_GreaterOrEqual(k, m, remote) ==
    IF m.o.mtime = None \/ remote.fetch.info.mtime >= Val(m.o.mtime)
    THEN SaveIfSet(k, SetInfo(k, m, remote.fetch.info), remote)
    ELSE update_cached(m)

\* refresh(), lines 179-188: a real update, or only the cache time
Compare(k, m, remote) ==
    IF m.o.mtime = None \/ remote.fetch.info.mtime > Val(m.o.mtime)
    THEN SaveIfSet(k, SetInfo(k, m, remote.fetch.info), remote)
    ELSE update_cached(m)

\* refresh(), lines 190-192
Finished(m) ==
    IF m.raised # None THEN Catch(m) ELSE [m EXCEPT !.o.error = None]

\* refresh() stamping cached before it looks at the outcome of the fetch
Fetched_StampOnFailure(k, m, remote, t) ==
    IF m.raised # None THEN Catch([m EXCEPT !.o.cached = Some(t)])
    ELSE Finished(Compare(k, [m EXCEPT !.o.cached = Some(t)], remote))

\* refresh(), lines 176-192, after info_ = self._refresh()
Fetched(k, m, remote, t) ==
    IF m.raised # None THEN Catch(m)
    ELSE Finished(Compare(k, [m EXCEPT !.o.cached = Some(t)], remote))

refresh(k, m, remote, t) ==
    Fetched(k, _refresh(k, [m EXCEPT !.refreshes = @ + 1], remote), remote, t)

\* load_info(), lines 156-159
Cached(k, m) ==
    IF m.o.info # None THEN parse_transient_info(k, m)
    ELSE [m EXCEPT !.o.error = Some("No Cached Info")]

\* load_info() refreshing already at the end of the window (>= for >)
base_load_info_EarlyExpiry(k, m, remote, t) ==
    IF m.o.id = None THEN m
    ELSE IF m.o.ignore_cache THEN refresh(k, m, remote, t)
    ELSE IF m.o.cached = None \/ t >= Val(m.o.cached) + LAZY_CACHE_REFRESH
    THEN refresh(k, m, remote, t)
    ELSE Cached(k, Getter(m))

\* load_info() that takes a row never refreshed for a fresh one
base_load_info_UnsetIsFresh(k, m, remote, t) ==
    IF m.o.id = None THEN m
    ELSE IF m.o.ignore_cache THEN refresh(k, m, remote, t)
    ELSE IF m.o.cached # None /\ t > Val(m.o.cached) + LAZY_CACHE_REFRESH
    THEN refresh(k, m, remote, t)
    ELSE Cached(k, Getter(m))

\* load_info() without its ignore_cache branch
base_load_info_NoIgnoreCache(k, m, remote, t) ==
    IF m.o.id = None THEN m
    ELSE IF m.o.cached = None \/ t > Val(m.o.cached) + LAZY_CACHE_REFRESH
    THEN refresh(k, m, remote, t)
    ELSE Cached(k, Getter(m))

\* CachedClusterObject.load_info(), used by Cluster and VirtualMachine
base_load_info(k, m, remote, t) ==
    IF m.o.id = None THEN m
    ELSE IF m.o.ignore_cache THEN refresh(k, m, remote, t)
    ELSE IF m.o.cached = None \/ t > Val(m.o.cached) + LAZY_CACHE_REFRESH
    THEN refresh(k, m, remote, t)
    ELSE Cached(k, Getter(m))

\* Job.load_info(), lines 276-277, after self._refresh()
JobFetched(m, remote) ==
    IF m.raised # None THEN m
    ELSE SaveIfSet("Job", SetInfo("Job", m, remote.fetch.info), remote)

\* Job.load_info() that fetches only while cached is unset
job_load_info_OnlyUncached(m, remote) ==
    IF m.o.id # None /\ m.o.ignore_cache /\ m.o.cached = None
    THEN JobFetched(_refresh("Job", m, remote), remote)
    ELSE m

\* Job.load_info() without the test of self.id
job_load_info_NoIdCheck(m, remote) ==
    IF m.o.ignore_cache
    THEN JobFetched(_refresh("Job", m, remote), remote)
    ELSE m

\* Job.load_info()
job_load_info(m, remote) ==
    IF m.o.id # None /\ m.o.ignore_cache
    THEN JobFetched(_refresh("Job", m, remote), remote)
    ELSE m

load_info(k, m, remote, t) ==
    IF k = "Job" THEN job_load_info(m, remote) ELSE base_load_info(k, m, remote, t)

\* the keyword arguments a caller constructs a new record with
Kwargs(k) ==
    [ignore_cache : BOOLEAN,
     owner_id : IF k = "VirtualMachine" THEN Owners ELSE {None}]

\* what a finished call leaves behind.  An exception raised out of __init__
\* leaves the caller without an instance.
Finish(op, m, remote, constructing) ==
    /\ m.reg.n <= MaxClients
    /\ obj' = IF constructing /\ m.raised # None THEN None ELSE Some(m.o)
    /\ db' = m.db
    /\ RAPI_CACHE' = m.reg.cache
    /\ RAPI_CACHE_HASHES' = m.reg.hashes
    /\ nclients' = m.reg.n
    /\ clusters' = IF kind = "Cluster" /\ m.saves > 0
                   THEN [clusters EXCEPT ![TheCluster] =
                           ClusterRow([username |-> @.username,
                                       password |-> @.password,
                                       hostname |-> @.hostname,
                                       port |-> @.port])]
                   ELSE clusters
    /\ last' = [op |-> op, calls |-> m.calls, sent |-> m.sent,
                resolved |-> m.resolved,
                saves |-> m.saves, updates |-> m.updates, dumped |-> m.dumped,
                parsed |-> m.parsed, refreshes |-> m.refreshes,
                raised |-> m.raised,
                fetch |-> IF m.calls # <<>> /\ m.calls[1] = FetchCall(kind)
                          THEN Some(remote.fetch) ELSE None,
                at |-> now]
    /\ UNCHANGED <<held, kind, now, raceVars, syncVars, appVars>>

\* a caller constructs a new, unsaved record: __init__ runs load_info
New(kw, remote) ==
    /\ db = None
    /\ Finish("new", load_info(kind, Call(NewObject(kw), db, Registry), remote, now),
              remote, TRUE)

\* a caller reads the record from the store: __init__ runs load_info
Load(remote) ==
    /\ db # None
    /\ Finish("load",
              load_info(kind, Call(FromRow(Val(db)), db, Registry), remote, now),
              remote, TRUE)

\* a caller calls refresh() on the instance it holds
Refresh(remote) ==
    /\ obj # None
    /\ Val(obj).id # None
    /\ Finish("refresh", refresh(kind, Call(Val(obj), db, Registry), remote, now),
              remote, FALSE)

\* a caller calls save() on the instance it holds
Save(remote) ==
    /\ obj # None
    /\ Val(obj).id # None \/ db = None
    /\ Finish("save", save(kind, Call(Val(obj), db, Registry), remote),
              remote, FALSE)

\* a caller assigns the owner of the instance it holds: vm.owner = user
SetOwner(owner) ==
    /\ kind = "VirtualMachine"
    /\ obj # None
    /\ Val(obj).owner_id # owner
    /\ obj' = Some([Val(obj) EXCEPT !.owner_id = owner])
    /\ last' = [op |-> "set_owner"]
    /\ UNCHANGED <<registryVars, kind, db, now, raceVars, syncVars, appVars>>

\* the keyword arguments a Job is created with: pending
PendingKwargs == [ignore_cache |-> TRUE, owner_id |-> None]

\* Job.objects.create(..., ignore_cache=True): __init__, then save()
CreateJob(remote) ==
    /\ kind = "Job"
    /\ db = None
    /\ Finish("create",
              save("Job",
                   load_info("Job", Call(NewObject(PendingKwargs), db, Registry),
                             remote, now),
                   remote),
              remote, TRUE)

\* time passes
Tick ==
    /\ now < MaxTime
    /\ now' = now + 1
    /\ last' = [op |-> "tick"]
    /\ UNCHANGED <<registryVars, kind, db, obj, raceVars, syncVars, appVars>>

Init ==
    /\ clusters = [c \in ClusterIds |-> ClusterRow(InitialCredentials(c))]
    /\ RAPI_CACHE = <<>>
    /\ RAPI_CACHE_HASHES = <<>>
    /\ nclients = 0
    /\ held = [c \in ClusterIds |-> {create_hash(InitialCredentials(c))}]
    /\ kind \in Kinds
    /\ db = None
    /\ obj = None
    /\ now = 0
    /\ last = [op |-> "init"]
    /\ workers = [w \in Workers |-> Idle]
    /\ virtual_machines = {}
    /\ pk = 0
    /\ jobs = {}
    /\ backend = [mtime |-> 1]
    /\ plugins = None
    /\ site = NoRequests

Next ==
    \/ \E kw \in Kwargs(kind) : \E remote \in Remotes(kind) : New(kw, remote)
    \/ \E remote \in Remotes(kind) : Load(remote)
    \/ \E remote \in Remotes(kind) : Refresh(remote)
    \/ \E remote \in TagRemotes(kind) : Save(remote)
    \/ \E remote \in TagRemotes(kind) : CreateJob(remote)
    \/ Tick

Spec == Init /\ [][Next]_vars

(***************************************************************************)
(* One instance whose owner changes while it is loaded, refreshed and       *)
(* saved.  The instance carries owner tags and a tag of another kind; time  *)
(* stands still, so a load that follows a refresh is inside the window.     *)
(***************************************************************************)
\* what GetInstance returns for a tagged instance
TaggedPayloads ==
    [mtime : {1}, ctime : {None}, tags : SUBSET TagValues, memory : {Memory},
     status : {"n/a"}]

OwnerRemotes ==
    [fetch  : {[ok |-> FALSE, error |-> GanetiApiError("Connection refused")]}
              \cup {[ok |-> TRUE, info |-> i] : i \in TaggedPayloads},
     delete : TagOutcomes("VirtualMachine", "Tag delete failed"),
     add    : TagOutcomes("VirtualMachine", "Tag add failed")]

InitOwner == Init /\ kind = "VirtualMachine"

NextOwner ==
    \/ \E kw \in Kwargs(kind) : \E remote \in OwnerRemotes : New(kw, remote)
    \/ \E remote \in OwnerRemotes : Load(remote)
    \/ \E remote \in OwnerRemotes : Refresh(remote)
    \/ \E remote \in OwnerRemotes : Save(remote)
    \/ \E owner \in AnyOwner : SetOwner(owner)

SpecOwner == InitOwner /\ [][NextOwner]_vars

(***************************************************************************)
(* get_rapi run by two threads of one process.  The module-level dicts      *)
(* RAPI_CACHE and RAPI_CACHE_HASHES are shared; a thread can be preempted   *)
(* between any two dict operations.  Both threads ask for the same cluster  *)
(* with its current fingerprint; the credentials change only while no       *)
(* thread is inside get_rapi.                                               *)
(***************************************************************************)
\* one step of thread w: its new position and locals, and the registry
WorkerStep(w, s, reg) ==
    /\ workers' = [workers EXCEPT ![w] = s]
    /\ RAPI_CACHE' = reg.cache
    /\ RAPI_CACHE_HASHES' = reg.hashes
    /\ nclients' = reg.n
    /\ UNCHANGED <<clusters, held, entityVars, last, syncVars, backend,
                   appVars>>

At(w, pc) == workers[w].pc = pc

Goto(w, pc) == [workers[w] EXCEPT !.pc = pc]

\* return RAPI_CACHE[key]: KeyError when the entry is gone
Subscript(w, key) ==
    IF key \in DOMAIN RAPI_CACHE
    THEN [workers[w] EXCEPT !.pc = "returned", !.rapi = Some(RAPI_CACHE[key])]
    ELSE [workers[w] EXCEPT !.pc = "raised", !.raised = Some("KeyError")]

\* self.rapi of an object that carries the cluster's current fingerprint
Enter(w) ==
    /\ At(w, "idle")
    /\ WorkerStep(w, [Idle EXCEPT !.pc = "l53",
                                  !.hash = Some(clusters[TheCluster].hash)],
                  Registry)

\* line 53: if hash in RAPI_CACHE
Lookup(w) ==
    /\ At(w, "l53")
    /\ WorkerStep(w, Goto(w, IF Val(workers[w].hash) \in DOMAIN RAPI_CACHE
                             THEN "l54" ELSE "l60"),
                  Registry)

\* line 54: return RAPI_CACHE[hash]
Hit(w) ==
    /\ At(w, "l54")
    /\ WorkerStep(w, Subscript(w, Val(workers[w].hash)), Registry)

\* lines 60-66: read the cluster's credentials from the store
ReadStore(w) ==
    /\ At(w, "l60")
    /\ WorkerStep(w, [workers[w] EXCEPT !.pc = "l70",
                                        !.row = Some(clusters[TheCluster])],
                  Registry)

\* line 70: if hash in RAPI_CACHE, with the fingerprint read from the store
LookupFresh(w) ==
    /\ At(w, "l70")
    /\ WorkerStep(w, Goto(w, IF Val(workers[w].row).hash \in DOMAIN RAPI_CACHE
                             THEN "l71" ELSE "l74"),
                  Registry)

\* line 71: return RAPI_CACHE[hash]
HitFresh(w) ==
    /\ At(w, "l71")
    /\ WorkerStep(w, Subscript(w, Val(workers[w].row).hash), Registry)

\* line 74: if cluster in RAPI_CACHE_HASHES
TestEvict(w) ==
    /\ At(w, "l74")
    /\ WorkerStep(w, Goto(w, IF TheCluster \in DOMAIN RAPI_CACHE_HASHES
                             THEN "l75" ELSE "l77"),
                  Registry)

\* line 75, the subscript RAPI_CACHE_HASHES[cluster]
ReadPrevious(w) ==
    /\ At(w, "l75")
    /\ WorkerStep(w,
                  IF TheCluster \in DOMAIN RAPI_CACHE_HASHES
                  THEN [workers[w] EXCEPT
                          !.pc = "del",
                          !.previous = Some(RAPI_CACHE_HASHES[TheCluster])]
                  ELSE [workers[w] EXCEPT !.pc = "raised",
                                          !.raised = Some("KeyError")],
                  Registry)

\* line 75, del RAPI_CACHE[...]: KeyError when the entry is gone
Evict(w) ==
    /\ At(w, "del")
    /\ IF Val(workers[w].previous) \in DOMAIN RAPI_CACHE
       THEN WorkerStep(w, Goto(w, "l77"),
                       [Registry EXCEPT
                          !.cache = RemoveKey(@, Val(workers[w].previous))])
       ELSE WorkerStep(w, [workers[w] EXCEPT !.pc = "raised",
                                             !.raised = Some("KeyError")],
                       Registry)

\* line 77: rapi = client.GanetiRapiClient(host, port, user, password)
Construct(w) ==
    /\ At(w, "l77")
    /\ nclients < MaxClients
    /\ WorkerStep(w,
                  [workers[w] EXCEPT
                     !.pc = "l78",
                     !.rapi = Some(GanetiRapiClient(
                                     Val(workers[w].row).hostname,
                                     Val(workers[w].row).port,
                                     OrNone(Val(workers[w].row).username),
                                     OrNone(Val(workers[w].row).password),
                                     nclients + 1))],
                  [Registry EXCEPT !.n = @ + 1])

\* line 78: RAPI_CACHE[hash] = rapi
Store(w) ==
    /\ At(w, "l78")
    /\ WorkerStep(w, Goto(w, "l79"),
                  [Registry EXCEPT
                     !.cache = SetKey(@, Val(workers[w].row).hash,
                                      Val(workers[w].rapi))])

\* lines 79-80: RAPI_CACHE_HASHES[cluster] = hash; return rapi
Index(w) ==
    /\ At(w, "l79")
    /\ WorkerStep(w, Goto(w, "returned"),
                  [Registry EXCEPT
                     !.hashes = SetKey(@, TheCluster, Val(workers[w].row).hash)])

\* the caller is done with what get_rapi returned or raised
Leave(w) ==
    /\ workers[w].pc \in {"returned", "raised"}
    /\ WorkerStep(w, Idle, Registry)

\* no thread is inside get_rapi or holds its outcome
Quiescent == \A w \in Workers : At(w, "idle")

\* Cluster.save() with edited connection fields, between the calls
Rotate(cred) ==
    /\ Quiescent
    /\ SaveCluster(TheCluster, cred)

NextRace ==
    \/ \E w \in Workers :
          \/ Enter(w)
          \/ Lookup(w)
          \/ Hit(w)
          \/ ReadStore(w)
          \/ LookupFresh(w)
          \/ HitFresh(w)
          \/ TestEvict(w)
          \/ ReadPrevious(w)
          \/ Evict(w)
          \/ Construct(w)
          \/ Store(w)
          \/ Index(w)
          \/ Leave(w)
    \/ \E cred \in Credentials(TheCluster) : Rotate(cred)

SpecRace == InitRegistry /\ [][NextRace]_vars

(***************************************************************************)
(* refresh() run by two workers on the same stored entity.  Each worker     *)
(* reads the row into an instance of its own, fetches, and then writes; the *)
(* remote entity can be modified, and the other worker can run, between the *)
(* fetch and the write.  A row write is atomic.                             *)
(***************************************************************************)
\* the remote side of a worker's refresh: the fetch fails, or returns the
\* entity as it is now; the entity carries no tags, so no tag call is made
Quiet(fetch) == [fetch |-> fetch, delete |-> [ok |-> TRUE], add |-> [ok |-> TRUE]]

Unreachable == Quiet([ok |-> FALSE, error |-> GanetiApiError("Connection refused")])

Current ==
    Quiet([ok |-> TRUE,
           info |-> [mtime |-> backend.mtime, ctime |-> None, tags |-> {},
                     memory |-> IF kind = "VirtualMachine" THEN Memory ELSE 0,
                     status |-> IF kind = "Job" THEN "running" ELSE "n/a"]])

\* the row of an entity that was created and saved and never refreshed
StoredRow(k) ==
    save(k, Call(NewObject([ignore_cache |-> FALSE, owner_id |-> None]), None,
                 [cache |-> <<>>, hashes |-> <<>>, n |-> 0]),
         Unreachable).db

\* a worker with the call it is running and the outcome of its fetch
Refreshing(pc, m, remote) == [pc |-> pc, m |-> m, remote |-> remote]

RefreshStep(w, s, m) ==
    /\ m.reg.n <= MaxClients
    /\ workers' = [workers EXCEPT ![w] = s]
    /\ db' = m.db
    /\ RAPI_CACHE' = m.reg.cache
    /\ RAPI_CACHE_HASHES' = m.reg.hashes
    /\ nclients' = m.reg.n
    /\ UNCHANGED <<clusters, held, kind, obj, now, last, syncVars, backend,
                   appVars>>

\* objects.get(pk=...): the worker's own instance of the row
ReadRow(w) ==
    /\ At(w, "idle")
    /\ RefreshStep(w, Refreshing("read", Call(FromRow(Val(db)), db, Registry),
                                 Unreachable),
                   Call(FromRow(Val(db)), db, Registry))

\* refresh(), line 175: info_ = self._refresh()
FetchRemote(w, remote) ==
    /\ At(w, "read")
    /\ RefreshStep(w,
                   Refreshing("fetched",
                              _refresh(kind,
                                       [workers[w].m EXCEPT !.db = db,
                                                            !.reg = Registry],
                                       remote),
                              remote),
                   [_refresh(kind,
                             [workers[w].m EXCEPT !.db = db, !.reg = Registry],
                             remote)
                    EXCEPT !.raised = None])

\* refresh(), lines 176-192, on the store as it is now
WriteFetched(w) ==
    /\ At(w, "fetched")
    /\ RefreshStep(w,
                   Refreshing("done",
                              Fetched(kind,
                                      [workers[w].m EXCEPT !.db = db,
                                                           !.reg = Registry],
                                      workers[w].remote, now),
                              workers[w].remote),
                   Fetched(kind,
                           [workers[w].m EXCEPT !.db = db, !.reg = Registry],
                           workers[w].remote, now))

\* the remote entity is modified: its mtime advances
Modify ==
    /\ backend.mtime < MaxMtime
    /\ backend' = [backend EXCEPT !.mtime = @ + 1]
    /\ UNCHANGED <<registryVars, entityVars, last, workers, syncVars, appVars>>

InitRefreshRace ==
    /\ clusters = [c \in ClusterIds |-> ClusterRow(InitialCredentials(c))]
    /\ RAPI_CACHE = <<>>
    /\ RAPI_CACHE_HASHES = <<>>
    /\ nclients = 0
    /\ held = [c \in ClusterIds |-> {create_hash(InitialCredentials(c))}]
    /\ kind \in Kinds
    /\ db = StoredRow(kind)
    /\ obj = None
    /\ now = 0
    /\ last = [op |-> "init"]
    /\ workers = [w \in Workers |-> Idle]
    /\ virtual_machines = {}
    /\ pk = 0
    /\ jobs = {}
    /\ backend = [mtime |-> 1]
    /\ plugins = None
    /\ site = NoRequests

NextRefreshRace ==
    \/ \E w \in Workers : ReadRow(w)
    \/ \E w \in Workers : \E remote \in {Unreachable, Current} :
          FetchRemote(w, remote)
    \/ \E w \in Workers : WriteFetched(w)
    \/ Modify

SpecRefreshRace == InitRefreshRace /\ [][NextRefreshRace]_vars

(***************************************************************************)
(* Reconciliation of the VirtualMachine table with the instances a cluster  *)
(* reports: Cluster.sync_virtual_machines.                                  *)
(***************************************************************************)
\* Python 2 strings: a byte string or a unicode string with its text.  Two
\* strings of ASCII text are equal when their texts are, whatever their types.
unicode(x) == [type |-> "unicode", text |-> x.text]

StrOf(x) == [type |-> "str", text |-> x.text]

PyEq(x, y) == x.text = y.text

\* x in list, x in queryset
Contains(list, x) == \E i \in DOMAIN list : PyEq(list[i], x)

\* the instance names of the clusters
HostTexts == {"a", "b"}

\* a list without repetition of the names in S, in any order
RECURSIVE ListsOf(_)
ListsOf(S) ==
    IF S = {} THEN {<<>>}
    ELSE UNION {{<<unicode([text |-> t])>> \o l : l \in ListsOf(S \ {t})} : t \in S}

\* GetInstances(bulk=False) returns the list of instance names, or raises
InstancesOutcomes ==
    {[ok |-> FALSE, error |-> GanetiApiError("Connection refused")]}
    \cup {[ok |-> TRUE, names |-> l] : l \in UNION {ListsOf(S) : S \in SUBSET HostTexts}}

\* Cluster.instances(): [] when the client raises GanetiApiError
instances(outcome) == IF outcome.ok THEN outcome.names ELSE <<>>

\* self.virtual_machines.all()
Rows(table, c) == {v \in table : v.cluster = c}

\* the rows as a list, in primary-key order
RECURSIVE ListOfRows(_)
ListOfRows(rows) ==
    IF rows = {} THEN <<>>
    ELSE <<CHOOSE v \in rows : \A u \in rows : v.id <= u.id>>
         \o ListOfRows(rows \ {CHOOSE v \in rows : \A u \in rows : v.id <= u.id})

\* .values_list('hostname', flat=True)
values_list(rows) == [i \in DOMAIN ListOfRows(rows) |-> ListOfRows(rows)[i].hostname]

\* every name of ganeti, without the membership test
MissingInDb_All(ganeti, names) == ganeti

\* filter(lambda x: unicode(x) not in db, ganeti)
RECURSIVE MissingInDb(_, _)
MissingInDb(ganeti, names) ==
    IF ganeti = <<>> THEN <<>>
    ELSE (IF Contains(names, unicode(Head(ganeti))) THEN <<>> ELSE <<Head(ganeti)>>)
         \o MissingInDb(Tail(ganeti), names)

\* the names of db that are in ganeti (in for not in)
RECURSIVE MissingInGaneti_Present(_, _)
MissingInGaneti_Present(ganeti, names) ==
    IF names = <<>> THEN <<>>
    ELSE (IF Contains(ganeti, StrOf(Head(names))) THEN <<Head(names)>> ELSE <<>>)
         \o MissingInGaneti_Present(ganeti, Tail(names))

\* filter(lambda x: str(x) not in ganeti, db)
RECURSIVE MissingInGaneti(_, _)
MissingInGaneti(ganeti, names) ==
    IF names = <<>> THEN <<>>
    ELSE (IF Contains(ganeti, StrOf(Head(names))) THEN <<>> ELSE <<Head(names)>>)
         \o MissingInGaneti(ganeti, Tail(names))

\* VirtualMachine(cluster=self, hostname=hostname).save(): __init__ runs
\* load_info, save() finds no info and writes the record
Created(reg) ==
    save("VirtualMachine",
         load_info("VirtualMachine",
                   Call(NewObject([ignore_cache |-> FALSE, owner_id |-> None]),
                        None, reg),
                   [fetch |-> [ok |-> FALSE], delete |-> [ok |-> TRUE],
                    add |-> [ok |-> TRUE]],
                   now),
         [fetch |-> [ok |-> FALSE], delete |-> [ok |-> TRUE],
          add |-> [ok |-> TRUE]])

\* the row it inserts
Columns(reg) == Val(Created(reg).db)

VirtualMachine(id, c, hostname, reg) ==
    [id |-> id, cluster |-> c, hostname |-> unicode(hostname),
     cluster_hash |-> clusters[c].hash, columns |-> Columns(reg)]

\* the for loop of lines 512-513: one insert for each name, in order
RECURSIVE Inserts(_, _, _, _, _)
Inserts(table, n, c, names, reg) ==
    IF names = <<>> THEN table
    ELSE Inserts(table \cup {VirtualMachine(n + 1, c, Head(names), reg)},
                 n + 1, c, Tail(names), reg)

\* the filter on the whole table: VirtualMachine.objects.filter(hostname__in=...)
HostnameIn_AnyCluster(table, c, missing) ==
    {v \in table : Contains(missing, v.hostname)}

\* self.virtual_machines.filter(hostname__in=missing_ganeti)
HostnameIn(table, c, missing) ==
    {v \in Rows(table, c) : Contains(missing, v.hostname)}

\* lines 516-520: the rows the call deletes
Removed(table, c, remove, ganeti, names) ==
    IF remove /\ MissingInGaneti(ganeti, names) # <<>>
    THEN HostnameIn(table, c, MissingInGaneti(ganeti, names))
    ELSE {}

\* sync_virtual_machines after ganeti = self.instances(), with the names db
\* of the cluster's rows read before the first insert
Reconcile(c, remove, outcome, ganeti, names) ==
    /\ pk + Len(MissingInDb(ganeti, names)) <= MaxPk
    /\ pk' = pk + Len(MissingInDb(ganeti, names))
    /\ virtual_machines' =
         Inserts(virtual_machines, pk, c, MissingInDb(ganeti, names), Registry)
         \ Removed(Inserts(virtual_machines, pk, c, MissingInDb(ganeti, names),
                           Registry),
                   c, remove, ganeti, names)
    /\ last' = [op |-> "sync", cluster |-> c, remove |-> remove,
                fetch |-> outcome,
                inserts |-> Len(MissingInDb(ganeti, names)),
                deletes |-> IF remove /\ MissingInGaneti(ganeti, names) # <<>>
                            THEN 1 ELSE 0,
                created_calls |-> IF MissingInDb(ganeti, names) # <<>>
                                  THEN Created(Registry).calls ELSE <<>>,
                raised |-> None]
    /\ UNCHANGED jobs

\* self.rapi raised: sync_virtual_machines raises before it reads the table
SyncRaised(c, remove, r) ==
    /\ last' = [op |-> "sync", cluster |-> c, remove |-> remove,
                fetch |-> [ok |-> FALSE], inserts |-> 0, deletes |-> 0,
                created_calls |-> <<>>, raised |-> r.raised]
    /\ UNCHANGED syncVars

\* sync_virtual_machines after self.rapi returned or raised r
Synced(c, remove, outcome, r) ==
    /\ RAPI_CACHE' = r.cache
    /\ RAPI_CACHE_HASHES' = r.hashes
    /\ nclients' = r.n
    /\ IF r.raised # None
       THEN SyncRaised(c, remove, r)
       ELSE Reconcile(c, remove, outcome, instances(outcome),
                      values_list(Rows(virtual_machines, c)))
    /\ UNCHANGED <<clusters, held, entityVars, raceVars, appVars>>

\* Cluster.sync_virtual_machines(remove) of cluster c: self.rapi resolves the
\* client, GetInstances returns or raises outcome
sync_virtual_machines(c, remove, outcome) ==
    Synced(c, remove, outcome, get_rapi(clusters[c].hash, c, Registry, clusters))

\* the list a missing_in_* property computes from ganeti and db
Missing(name, ganeti, names) ==
    IF name = "missing_in_ganeti"
    THEN MissingInGaneti(ganeti, names)
    ELSE MissingInDb(ganeti, names)

\* a missing_in_* property after self.rapi returned or raised r
Queried(c, name, outcome, r) ==
    /\ RAPI_CACHE' = r.cache
    /\ RAPI_CACHE_HASHES' = r.hashes
    /\ nclients' = r.n
    /\ last' = [op |-> name, cluster |-> c,
                fetch |-> IF r.raised # None THEN [ok |-> FALSE] ELSE outcome,
                result |-> IF r.raised # None THEN <<>>
                           ELSE Missing(name, instances(outcome),
                                        values_list(Rows(virtual_machines, c))),
                raised |-> r.raised]
    /\ UNCHANGED <<clusters, held, entityVars, raceVars, syncVars, appVars>>

\* Cluster.missing_in_ganeti of cluster c
missing_in_ganeti(c, outcome) ==
    Queried(c, "missing_in_ganeti", outcome,
            get_rapi(clusters[c].hash, c, Registry, clusters))

\* Cluster.missing_in_db of cluster c
missing_in_db(c, outcome) ==
    Queried(c, "missing_in_db", outcome,
            get_rapi(clusters[c].hash, c, Registry, clusters))

NextSync ==
    \/ \E c \in ClusterIds : \E remove \in BOOLEAN :
          \E outcome \in InstancesOutcomes :
              sync_virtual_machines(c, remove, outcome)
    \/ \E c \in ClusterIds : \E outcome \in InstancesOutcomes :
          missing_in_ganeti(c, outcome)
    \/ \E c \in ClusterIds : \E outcome \in InstancesOutcomes :
          missing_in_db(c, outcome)

SpecSync == InitRegistry /\ [][NextSync]_vars

(***************************************************************************)
(* sync_virtual_machines run by two workers on the same cluster against the *)
(* same inventory.  A worker can be preempted after it fetched the          *)
(* inventory, after it evaluated the filter of line 512 (which reads the    *)
(* hostnames of the table once), and between two inserts.                   *)
(***************************************************************************)
\* a worker inside sync_virtual_machines, with its locals
Syncing(pc, remove, ganeti, names, missing) ==
    [pc |-> pc, remove |-> remove, ganeti |-> ganeti, names |-> names,
     missing |-> missing]

SyncStep(w, s, reg) ==
    /\ reg.n <= MaxClients
    /\ workers' = [workers EXCEPT ![w] = s]
    /\ RAPI_CACHE' = reg.cache
    /\ RAPI_CACHE_HASHES' = reg.hashes
    /\ nclients' = reg.n
    /\ UNCHANGED <<clusters, held, entityVars, last, jobs, backend, appVars>>

\* line 508: ganeti = self.instances(); both workers see the same inventory
FetchInventory(w, remove, outcome) ==
    /\ At(w, "idle")
    /\ \A v \in Workers :
          IF At(v, "idle") THEN TRUE ELSE workers[v].ganeti = instances(outcome)
    /\ SyncStep(w, Syncing("l509", remove, instances(outcome), <<>>, <<>>),
                get_rapi(clusters[TheCluster].hash, TheCluster, Registry, clusters))
    /\ UNCHANGED <<virtual_machines, pk>>

\* lines 509 and 512: the filter evaluates db, the hostnames now in the table
FilterMissing(w) ==
    /\ At(w, "l509")
    /\ SyncStep(w, Syncing("l513", workers[w].remove, workers[w].ganeti,
                           values_list(Rows(virtual_machines, TheCluster)),
                           MissingInDb(workers[w].ganeti,
                                       values_list(Rows(virtual_machines,
                                                        TheCluster)))),
                Registry)
    /\ UNCHANGED <<virtual_machines, pk>>

\* line 513: VirtualMachine(cluster=self, hostname=hostname).save()
InsertMissing(w) ==
    /\ At(w, "l513")
    /\ workers[w].missing # <<>>
    /\ pk < MaxPk
    /\ pk' = pk + 1
    /\ virtual_machines' =
         Inserts(virtual_machines, pk, TheCluster, <<Head(workers[w].missing)>>,
                 Registry)
    /\ SyncStep(w, [workers[w] EXCEPT !.missing = Tail(@)], Registry)

\* lines 516-520, with db as the filter of line 512 read it
RemoveMissing(w) ==
    /\ At(w, "l513")
    /\ workers[w].missing = <<>>
    /\ virtual_machines' =
         virtual_machines \ Removed(virtual_machines, TheCluster,
                                    workers[w].remove, workers[w].ganeti,
                                    workers[w].names)
    /\ SyncStep(w, [workers[w] EXCEPT !.pc = "done"], Registry)
    /\ UNCHANGED pk

NextSyncRace ==
    \/ \E w \in Workers : \E remove \in BOOLEAN :
          \E outcome \in InstancesOutcomes : FetchInventory(w, remove, outcome)
    \/ \E w \in Workers : FilterMissing(w)
    \/ \E w \in Workers : InsertMissing(w)
    \/ \E w \in Workers : RemoveMissing(w)

SpecSyncRace == InitRegistry /\ [][NextSyncRace]_vars

(***************************************************************************)
(* The denormalized fingerprint: instances and jobs are inserted for the    *)
(* clusters while the clusters' credentials are edited and saved.           *)
(***************************************************************************)
Inserted(vms, js) ==
    /\ pk < MaxPk
    /\ pk' = pk + 1
    /\ virtual_machines' = vms
    /\ jobs' = js
    /\ UNCHANGED <<registryVars, entityVars, raceVars, appVars>>

\* VirtualMachine.save() of a new instance: cluster_hash = self.cluster.hash
InsertVirtualMachine(c, hostname) ==
    /\ Inserted(virtual_machines
                \cup {VirtualMachine(pk + 1, c, [type |-> "str", text |-> hostname],
                                     Registry)},
                jobs)
    /\ last' = [op |-> "insert_vm", cluster |-> c]

\* Job.save() of a new job: cluster_hash = self.cluster.hash
InsertJob(c) ==
    /\ Inserted(virtual_machines,
                jobs \cup {[id |-> pk + 1, cluster |-> c,
                            cluster_hash |-> clusters[c].hash]})
    /\ last' = [op |-> "insert_job", cluster |-> c]

NextHash ==
    \/ \E c \in ClusterIds : \E cred \in Credentials(c) : SaveCluster(c, cred)
    \/ \E c \in ClusterIds : \E hostname \in HostTexts :
          InsertVirtualMachine(c, hostname)
    \/ \E c \in ClusterIds : InsertJob(c)

SpecHash == InitRegistry /\ [][NextHash]_vars

(***************************************************************************)
(* The rows reconciliation discovers and their first load: one cluster is   *)
(* reconciled, and its VirtualMachine rows are read from the store.         *)
(***************************************************************************)
\* what the remote side answers to the load of a discovered instance
DiscoveryRemotes ==
    {r \in Remotes("VirtualMachine") :
        /\ r.delete.ok
        /\ r.add.ok
        /\ r.fetch.ok => r.fetch.info.mtime = 1}

\* the table and the record of the call after the load m of row v finished
Loaded(v, m, remote) ==
    /\ m.reg.n <= MaxClients
    /\ virtual_machines' =
         (virtual_machines \ {v}) \cup {[v EXCEPT !.columns = Val(m.db)]}
    /\ RAPI_CACHE' = m.reg.cache
    /\ RAPI_CACHE_HASHES' = m.reg.hashes
    /\ nclients' = m.reg.n
    /\ last' = [op |-> "load_vm", id |-> v.id, calls |-> m.calls,
                refreshes |-> m.refreshes, saves |-> m.saves,
                raised |-> m.raised, fetch |-> remote.fetch,
                before |-> v.columns]
    /\ UNCHANGED <<clusters, held, entityVars, raceVars, pk, jobs, appVars>>

\* VirtualMachine.objects.get(pk=v.id): __init__ runs load_info on the row
LoadVirtualMachine(v, remote) ==
    Loaded(v,
           load_info("VirtualMachine",
                     Call(FromRow(v.columns), Some(v.columns), Registry),
                     remote, now),
           remote)

NextDiscover ==
    \/ \E remove \in BOOLEAN : \E outcome \in InstancesOutcomes :
          sync_virtual_machines(TheCluster, remove, outcome)
    \/ \E v \in Rows(virtual_machines, TheCluster) :
          \E remote \in DiscoveryRemotes : LoadVirtualMachine(v, remote)

SpecDiscover == InitRegistry /\ [][NextDiscover]_vars

(***************************************************************************)
(* Plugins: update_config, get_depends and get_depended.  The plugin        *)
(* classes are defined once, each with its depends attribute; Python        *)
(* iterates a set or a dict in an order the program does not choose, which  *)
(* is drawn with the classes.                                               *)
(***************************************************************************)
PluginClasses == {"A", "B", "C"}

\* the configuration keys: the reserved names and two others
MaxConfig == 2

reserved_names == {"manager", "description", "depends", "enabled"}

ConfigKeys == reserved_names \cup {"x", "y"}

\* the lists without repetition of at most n elements of S
RECURSIVE Arrangements(_, _)
Arrangements(S, n) ==
    IF n = 0 \/ S = {} THEN {<<>>}
    ELSE {<<>>} \cup UNION {{<<x>> \o l : l \in Arrangements(S \ {x}, n - 1)} : x \in S}

Orders(S) == {l \in Arrangements(S, Cardinality(S)) : Len(l) = Cardinality(S)}

\* the class definitions: depends of each class, and the order in which a
\* set or dict of the classes is iterated
PluginWorlds == [depends : [PluginClasses -> SUBSET PluginClasses],
                 order : Orders(PluginClasses)]

\* the elements of S in iteration order
RECURSIVE Iterate(_, _)
Iterate(S, order) ==
    IF order = <<>> THEN <<>>
    ELSE (IF Head(order) \in S THEN <<Head(order)>> ELSE <<>>)
         \o Iterate(S, Tail(order))

\* add without its test for membership
add_NoTest(value, list) == Append(list, value)

\* the helper add(value, set) for set-like lists
add(value, list) ==
    IF \E i \in DOMAIN list : list[i] = value THEN list ELSE Append(list, value)

\* for grandparent in grandparents: add(grandparent, _depends)
RECURSIVE AddEach(_, _)
AddEach(values, list) ==
    IF values = <<>> THEN list
    ELSE AddEach(Tail(values), add(Head(values), list))

CyclicDependencyException == [raised |-> TRUE, list |-> <<>>]

Depends(list) == [raised |-> FALSE, list |-> list]

RECURSIVE get_depends(_, _)
RECURSIVE ForParents(_, _, _)
\* the loop that passes over a parent whose dependencies are cyclic
ForParents_Swallow(parents, descendents_, _depends) ==
    IF parents = <<>> THEN Depends(_depends)
    ELSE IF get_depends(Head(parents), descendents_).raised
    THEN ForParents(Tail(parents), descendents_, add(Head(parents), _depends))
    ELSE ForParents(Tail(parents), descendents_,
                    add(Head(parents),
                        AddEach(get_depends(Head(parents), descendents_).list,
                                _depends)))

\* the loop of lines 115-120 over the parents still to visit
ForParents(parents, descendents_, _depends) ==
    IF parents = <<>> THEN Depends(_depends)
    ELSE IF get_depends(Head(parents), descendents_).raised
    THEN CyclicDependencyException
    ELSE ForParents(Tail(parents), descendents_,
                    add(Head(parents),
                        AddEach(get_depends(Head(parents), descendents_).list,
                                _depends)))

\* get_depends(class_, descendents)
get_depends(class_, descendents) ==
    IF plugins.depends[class_] = {} THEN Depends(<<>>)
    ELSE IF ({class_} \cup descendents) \cap plugins.depends[class_] # {}
    THEN CyclicDependencyException
    ELSE ForParents(Iterate(plugins.depends[class_], plugins.order),
                    {class_} \cup descendents, <<>>)

\* list.reverse()
RECURSIVE Reverse(_)
Reverse(list) ==
    IF list = <<>> THEN <<>> ELSE Append(Reverse(Tail(list)), Head(list))

\* the loop of lines 73-75 over the items of manager.enabled
RECURSIVE ForEnabled(_, _, _)
ForEnabled(items, class_, depended) ==
    IF items = <<>> THEN Depends(depended)
    ELSE IF get_depends(Head(items), {}).raised THEN CyclicDependencyException
    ELSE ForEnabled(Tail(items), class_,
                    IF \E i \in DOMAIN get_depends(Head(items), {}).list :
                          get_depends(Head(items), {}).list[i] = class_
                    THEN add(Head(items), depended)
                    ELSE depended)

\* depended.reverse(); return depended
Reversed(r) == IF r.raised THEN r ELSE Depends(Reverse(r.list))

\* get_depended(plugin): None without a manager
get_depended(class_, manager, items) ==
    IF manager = None
    THEN [raised |-> FALSE, list |-> <<>>, none |-> TRUE]
    ELSE [raised |-> Reversed(ForEnabled(items, class_, <<>>)).raised,
          list |-> Reversed(ForEnabled(items, class_, <<>>)).list,
          none |-> FALSE]

\* update_config without the test of line 39
RECURSIVE Unpack_NoReserved(_, _)
Unpack_NoReserved(items, dict) ==
    IF items = <<>> THEN [raised |-> None, dict |-> dict]
    ELSE Unpack_NoReserved(Tail(items), SetKey(dict, Head(items), "config"))

\* lines 38-42: 'raise Exception(...) % (key)' applies % to the exception
\* object, which raises TypeError
RECURSIVE Unpack(_, _)
Unpack(items, dict) ==
    IF items = <<>> THEN [raised |-> None, dict |-> dict]
    ELSE IF Head(items) \in reserved_names
    THEN [raised |-> Some(Exception("TypeError")), dict |-> dict]
    ELSE Unpack(Tail(items), SetKey(dict, Head(items), "config"))

\* update_config(plugin_config) on an instance with the attributes dict
update_config(dict, plugin_config) ==
    Unpack(plugin_config.config, SetKey(dict, "enabled", plugin_config.enabled))

\* PluginConfig: enabled, and the items of config in iteration order
PluginConfigs ==
    [enabled : {"True", "False"}, config : Arrangements(ConfigKeys, MaxConfig)]

\* the attributes of an instance after self.manager = manager, self.name = ...
Constructed == ("manager" :> "manager") @@ ("name" :> "name")

PluginStep(record) ==
    /\ last' = record
    /\ UNCHANGED <<registryVars, entityVars, raceVars, syncVars, site>>

\* the plugin classes are defined
DefineClasses(world) ==
    /\ plugins = None
    /\ plugins' = world
    /\ PluginStep([op |-> "define"])

\* Plugin.__init__(manager, plugin_config), or update_config on an instance
\* that was enabled or not
UpdateConfig(enabled, plugin_config) ==
    /\ PluginStep([op |-> "update_config", config |-> plugin_config,
                   before |-> SetKey(Constructed, "enabled", enabled),
                   result |-> update_config(SetKey(Constructed, "enabled", enabled),
                                            plugin_config)])
    /\ UNCHANGED plugins

GetDepends(class_) ==
    /\ plugins # None
    /\ PluginStep([op |-> "get_depends", class |-> class_,
                   result |-> get_depends(class_, {})])
    /\ UNCHANGED plugins

\* get_depended(plugin) for an enabled plugin of class class_; items are
\* the classes of manager.enabled.items(), in the order the dict yields them
GetDepended(class_, manager, items) ==
    /\ plugins # None
    /\ IF manager = None THEN items = <<>>
       ELSE \E i \in DOMAIN items : items[i] = class_
    /\ PluginStep([op |-> "get_depended", class |-> class_, manager |-> manager,
                   items |-> items,
                   result |-> get_depended(class_, manager, items)])
    /\ UNCHANGED plugins

NextPlugins ==
    \/ \E world \in PluginWorlds : DefineClasses(world)
    \/ \E class_ \in PluginClasses : GetDepends(class_)

SpecPlugins == InitRegistry /\ [][NextPlugins]_vars

\* get_depended reads the lists of get_depends for membership only, so one
\* iteration order of the sets of classes is enough here
NextDepended ==
    \/ \E world \in {w \in PluginWorlds : w.order = <<"A", "B", "C">>} :
          DefineClasses(world)
    \/ \E class_ \in PluginClasses : \E manager \in {None, Some("manager")} :
          \E items \in Arrangements(PluginClasses, Cardinality(PluginClasses)) :
             GetDepended(class_, manager, items)

SpecDepended == InitRegistry /\ [][NextDepended]_vars

NextPluginConfig ==
    \E enabled \in {"True", "False"} : \E plugin_config \in PluginConfigs :
       UpdateConfig(enabled, plugin_config)

SpecPluginConfig == InitRegistry /\ [][NextPluginConfig]_vars

(***************************************************************************)
(* The node views and the view that adds a user to a group.  A request      *)
(* carries its user; perms are the permissions the user holds on the object *)
(* of the request (the cluster of a node view, the group of add_user).      *)
(***************************************************************************)
MaxJobs == 1

SiteUser(id, authenticated, superuser, perms) ==
    [id |-> id, is_authenticated |-> authenticated, is_superuser |-> superuser,
     perms |-> perms]

SiteUsers ==
    {SiteUser(1, FALSE, FALSE, {}),
     SiteUser(2, TRUE, TRUE, {}),
     SiteUser(3, TRUE, FALSE, {"admin"}),
     SiteUser(4, TRUE, FALSE, {"migrate"}),
     SiteUser(5, TRUE, FALSE, {"create_vm"})}

NodeViews ==
    {"detail", "primary", "secondary", "object_log", "role", "migrate",
     "evacuate"}

\* has_any_perms that grants every user
has_any_perms_Granted(user, perms) == TRUE

\* user.has_perm(perm, obj)
has_perm(user, perm) == perm \in user.perms

\* user.has_any_perms(obj, perms)
has_any_perms(user, perms) == user.perms \cap perms # {}

\* the test of the permission in each node view: detail computes admin and
\* modify, the others ask has_any_perms
NodePermitted(view, user) ==
    IF view = "detail"
    THEN (user.is_superuser \/ has_perm(user, "admin"))
         \/ has_any_perms(user, {"migrate"})
    ELSE user.is_superuser \/ has_any_perms(user, {"admin", "migrate"})

\* the key of the log entry and the operation of the node, per view
LogKey(view) ==
    CASE view = "role" -> "NODE_ROLE_CHANGE"
      [] view = "migrate" -> "NODE_MIGRATE"
      [] view = "evacuate" -> "NODE_EVACUATE"

NodeOperation(view) ==
    CASE view = "role" -> "set_role"
      [] view = "migrate" -> "migrate"
      [] view = "evacuate" -> "evacuate"

Response(status, s) == [status |-> status, site |-> s]

\* job = node.<operation>(...); job.load_info(); log_action(key, user, node, job)
Operated(view, user, s) ==
    [s EXCEPT !.started = Append(@, NodeOperation(view)),
              !.loaded = @ \cup {Len(s.started) + 1},
              !.log = Append(@, [key |-> LogKey(view), user |-> user.id,
                                 job |-> Len(s.started) + 1])]

\* the body of role, migrate and evacuate after the permission test
NodePost(view, user, method, valid, outcome, s) ==
    IF method = "POST"
    THEN IF (view = "evacuate" \/ valid) /\ outcome = "ok"
         THEN Response(200, Operated(view, user, s))
         ELSE Response(200, s)
    ELSE IF view = "evacuate" THEN Response(405, s) ELSE Response(200, s)

\* a node view: login_required, the two get_object_or_404, the permission
\* test, and the body
node_view(view, user, cluster, node, method, valid, outcome, s) ==
    IF ~user.is_authenticated THEN Response(302, s)
    ELSE IF ~cluster \/ ~node THEN Response(404, s)
    ELSE IF ~NodePermitted(view, user) THEN Response(403, s)
    ELSE IF view \in {"role", "migrate", "evacuate"}
    THEN NodePost(view, user, method, valid, outcome, s)
    ELSE Response(200, s)

SiteStep(record, s) ==
    /\ last' = record
    /\ site' = s
    /\ UNCHANGED <<registryVars, entityVars, raceVars, syncVars, plugins>>

\* a request of a node view; cluster and node tell whether the slug and the
\* host name a row, valid whether the form validates, outcome what the
\* cluster answers to the operation
NodeRequest(view, user, cluster, node, method, valid, outcome) ==
    /\ Len(node_view(view, user, cluster, node, method, valid, outcome,
                      site).site.started) <= MaxJobs
    /\ SiteStep([op |-> view, user |-> user, cluster |-> cluster,
                 node |-> node, method |-> method,
                 status |-> node_view(view, user, cluster, node, method, valid,
                                      outcome, site).status],
                node_view(view, user, cluster, node, method, valid, outcome,
                          site).site)

NextNodeViews ==
    \E view \in NodeViews : \E user \in SiteUsers :
       \E cluster \in BOOLEAN : \E node \in BOOLEAN :
          \E method \in {"GET", "POST"} : \E valid \in BOOLEAN :
             \E outcome \in {"ok", "GanetiApiError"} :
                NodeRequest(view, user, cluster, node, method, valid, outcome)

SpecNodeViews == InitRegistry /\ [][NextNodeViews]_vars

\* the membership test that finds nobody
IsMember_Nobody(id, s) == FALSE

\* the user is in group.user_set
IsMember(id, s) == \E i \in DOMAIN s.user_set : s.user_set[i] = id

GroupResponse(status, content_type, s) ==
    [status |-> status, content_type |-> content_type, site |-> s]

\* the answer of add_user to a POST of an authorized user: data is the user
\* id posted, None when it is missing, 0 an id of no user
AddUserPost(user, data, s) ==
    IF data = None THEN GroupResponse(200, "application/json", s)
    ELSE IF \A u \in SiteUsers : u.id # Val(data)
    THEN GroupResponse(200, "application/json", s)
    ELSE IF IsMember(Val(data), s)
    THEN GroupResponse(200, "application/json", s)
    ELSE GroupResponse(200, "text/html",
             [s EXCEPT !.user_set = Append(@, Val(data)),
                       !.signals = Append(@, [signal |-> "view_add_user",
                                              sender |-> user.id,
                                              user |-> Val(data)])])

\* the view /group/<id>/user/add/
add_user(user, method, data, s) ==
    IF ~user.is_authenticated THEN GroupResponse(302, "text/html", s)
    ELSE IF ~(user.is_superuser \/ has_perm(user, "admin"))
    THEN GroupResponse(403, "text/html", s)
    ELSE IF method = "POST" THEN AddUserPost(user, data, s)
    ELSE GroupResponse(200, "text/html", s)

\* the ids a request posts: 0 is the id of no user
PostedIds == {0, 3, 5}

AddUserRequest(user, method, data) ==
    /\ data \in {None} \cup {Some(id) : id \in PostedIds}
    /\ SiteStep([op |-> "add_user", user |-> user, method |-> method,
                 data |-> data,
                 status |-> add_user(user, method, data, site).status,
                 content_type |-> add_user(user, method, data, site).content_type],
                add_user(user, method, data, site).site)

NextGroupViews ==
    \E user \in SiteUsers : \E method \in {"GET", "POST"} :
       \E data \in {None} \cup {Some(id) : id \in PostedIds} :
          AddUserRequest(user, method, data)

SpecGroupViews == InitRegistry /\ [][NextGroupViews]_vars

(***************************************************************************)
(* Claims about the connection registry, checked under SpecRegistry.        *)
(***************************************************************************)
\* the credentials a handle was constructed from
HandleCredentials(rapi) ==
    [host |-> rapi.host, port |-> rapi.port, user |-> rapi.user,
     password |-> rapi.password]

\* the credentials a handle constructed now for cluster c would get
CurrentCredentials(c) ==
    [host |-> clusters[c].hostname, port |-> clusters[c].port,
     user |-> OrNone(clusters[c].username),
     password |-> OrNone(clusters[c].password)]

\* C9: get_rapi never returns a handle that was built for the cluster from
\* credentials that are no longer the cluster's credentials in the store, also
\* when the caller's fingerprint is stale.
C9_NoStaleHandle ==
    (/\ last.op = "get_rapi"
     /\ last.rapi # None
     /\ Val(last.rapi).host = clusters[last.cluster].hostname)
    => HandleCredentials(Val(last.rapi)) = CurrentCredentials(last.cluster)

\* C10: a get_rapi call that follows a get_rapi call for the same cluster, both
\* with the fingerprint of the cluster's unchanged current credentials, returns
\* the handle the first call returned, constructs no client, reads no
\* credentials from the store and leaves both maps as they were.
C10_RepeatIsCacheHit ==
    [][(/\ last.op = "get_rapi"
        /\ last.raised = None
        /\ last'.op = "get_rapi"
        /\ last'.cluster = last.cluster
        /\ last'.hash = last.hash
        /\ last.hash = clusters[last.cluster].hash)
       => (/\ last'.rapi = last.rapi
           /\ ~last'.built
           /\ ~last'.read
           /\ last'.raised = None
           /\ RAPI_CACHE' = RAPI_CACHE
           /\ RAPI_CACHE_HASHES' = RAPI_CACHE_HASHES
           /\ nclients' = nclients)]_vars

\* C10 witness: the second of two such calls has returned, after the first one
\* constructed the client
C10_Witness ==
    /\ last.op = "get_rapi"
    /\ last.again
    /\ last.hash = clusters[last.cluster].hash
    /\ last.rapi # None
    /\ last.cluster \in DOMAIN RAPI_CACHE_HASHES
    /\ RAPI_CACHE_HASHES[last.cluster] = last.hash
    /\ RAPI_CACHE[last.hash] = Val(last.rapi)

\* C11: the get_rapi call for a cluster that follows a Cluster.save() which
\* changed the cluster's fingerprint constructs a client, stores it under the
\* fresh fingerprint, and leaves no entry under the previous fingerprint.
C11_RotationEvicts ==
    [][(/\ last.op = "save_cluster"
        /\ last.changed
        /\ last'.op = "get_rapi"
        /\ last'.cluster = last.cluster)
       => (/\ last'.raised = None
           /\ last'.built
           /\ clusters[last.cluster].hash \in DOMAIN RAPI_CACHE'
           /\ RAPI_CACHE'[clusters[last.cluster].hash] = Val(last'.rapi)
           /\ last.previous \notin DOMAIN RAPI_CACHE')]_vars

(***************************************************************************)
(* Claims about concurrent get_rapi calls, checked under SpecRace.          *)
(***************************************************************************)
\* both threads hold the outcome of their call
BothDone == \A w \in Workers : workers[w].pc \in {"returned", "raised"}

\* C12: whenever two threads have both finished a get_rapi call for the same
\* cluster, however their steps interleaved, neither call raised, each returned
\* a handle built from the current credentials, and the registry holds exactly
\* one entry for the cluster, keyed by the current fingerprint.
C12_RaceOnlyDuplicates ==
    BothDone
    => (/\ \A w \in Workers :
             /\ workers[w].pc = "returned"
             /\ HandleCredentials(Val(workers[w].rapi))
                  = CurrentCredentials(TheCluster)
        /\ DOMAIN RAPI_CACHE = {clusters[TheCluster].hash}
        /\ RAPI_CACHE_HASHES = (TheCluster :> clusters[TheCluster].hash))

(***************************************************************************)
(* Claims about the cached cluster object, checked under Spec.              *)
(***************************************************************************)
\* the last call was a load of the persisted record
IsLoad(l) == l.op = "load"

\* the last call ran refresh(): an explicit one, or the one load_info makes
RanRefresh(l) == l.op \in {"load", "refresh"} /\ l.refreshes = 1

FetchFailed(l) == l.fetch # None /\ ~Val(l.fetch).ok

FetchReturned(l) == l.fetch # None /\ Val(l.fetch).ok

\* the instance refresh() started from: the one the caller held, or the one
\* __init__ built from the row
Before(l, o, row) == IF l.op = "refresh" THEN Val(o) ELSE FromRow(Val(row))

\* the row is inside the lazy refresh window at time t and not flagged
InsideWindow(row, t) ==
    /\ ~row.ignore_cache
    /\ row.cached # None
    /\ t <= Val(row.cached) + LAZY_CACHE_REFRESH

\* C1: when the remote fetch inside refresh() fails, info, cached and mtime, in
\* memory and in the store, are what they were before the call, and error is a
\* non-empty description of the failure.
C1_FetchFailureKeepsState ==
    [][(RanRefresh(last') /\ FetchFailed(last'))
       => (/\ obj' # None
           /\ Val(obj').info = Before(last', obj, db).info
           /\ Val(obj').serialized_info = Before(last', obj, db).serialized_info
           /\ Val(obj').cached = Before(last', obj, db).cached
           /\ Val(obj').mtime = Before(last', obj, db).mtime
           /\ db' = db
           /\ Val(obj').error = Some(str(Val(last'.fetch).error))
           /\ Val(obj').error # Some("")
           /\ last'.raised = None)]_vars

\* C1 witness: an explicit refresh() of an instance that holds cached state
\* has failed to fetch
C1_Witness ==
    /\ last.op = "refresh"
    /\ RanRefresh(last)
    /\ FetchFailed(last)
    /\ Val(obj).info # None
    /\ Val(obj).cached # None
    /\ Val(Val(obj).cached) < now
    /\ Val(obj).error = Some("Connection refused")

\* C2: with the local mtime set, a refresh() that fetches a modification time
\* not greater than it leaves info and every column but cached unchanged: no
\* parsing, no serialization, no full-record save, one narrow update of cached.
C2_NoChangeOnlyTouchesCached ==
    [][(/\ last'.op = "refresh"
        /\ FetchReturned(last')
        /\ Val(obj).mtime # None
        /\ Val(last'.fetch).info.mtime <= Val(Val(obj).mtime))
       => (/\ Val(obj') = [Val(obj) EXCEPT !.cached = Some(now), !.error = None]
           /\ db' = Some([Val(db) EXCEPT !.cached = Some(now)])
           /\ last'.parsed = 0
           /\ last'.dumped = 0
           /\ last'.saves = 0
           /\ last'.updates = 1
           /\ last'.calls = <<FetchCall(kind)>>)]_vars

\* C2 witness: such a refresh() has run with a strictly older fetched
\* modification time, on a row whose cached time was older than now
C2_Witness ==
    /\ last.op = "refresh"
    /\ FetchReturned(last)
    /\ last.updates = 1
    /\ last.saves = 0
    /\ Val(obj).mtime # None
    /\ Val(last.fetch).info.mtime < Val(Val(obj).mtime)
    /\ Val(obj).info # Some(Val(last.fetch).info)
    /\ Val(db).cached = Some(now)
    /\ now > 0

\* the tag list VirtualMachine.save() leaves in info: the tags of other owners
\* removed, the owner's tag present
Reconciled(k, payload, owner_id) ==
    IF k = "VirtualMachine"
    THEN [payload EXCEPT !.tags =
            {tag \in @ : ~IsOwnerTag(tag)}
            \cup IF owner_id = None THEN {} ELSE {OwnerTag(Val(owner_id))}]
    ELSE payload

\* the refresh() that ended without error took the real-update branch
RealUpdate(l, o, row) ==
    /\ RanRefresh(l)
    /\ FetchReturned(l)
    /\ \/ Before(l, o, row).mtime = None
       \/ Val(l.fetch).info.mtime > Val(Before(l, o, row).mtime)

\* what C3 says of everything but the value of info
RealUpdateEffects ==
    /\ last'.parsed = 1
    /\ kind # "Job" => Val(obj').mtime = Some(Val(last'.fetch).info.mtime)
    /\ kind = "Cluster" => Val(obj').ctime \in {Val(last'.fetch).info.ctime,
                                                 Before(last', obj, db).ctime}
    /\ kind = "VirtualMachine" => Val(obj').ram = Val(last'.fetch).info.memory
    /\ kind = "Job" /\ Before(last', obj, db).ignore_cache
         => Val(obj').status = Some(Val(last'.fetch).info.status)
    /\ Val(obj').cached = Some(now)
    /\ last'.saves = 1
    /\ last'.dumped = 1
    /\ Val(obj').serialized_info = Some(dumps(Val(obj').info))
    /\ loads(Val(Val(obj').serialized_info)) = Val(obj').info
    /\ db' = Some(ToRow(Val(obj')))

\* C3 as stated: a successful refresh() that fetched a strictly greater
\* modification time, or ran with the local one unset, leaves info equal to the
\* fetched payload, parsed, cached = now, and the full record saved with
\* serialized_info encoding the new info.
C3_Original ==
    [][(RealUpdate(last', obj, db) /\ obj' # None /\ Val(obj').error = None)
       => (/\ Val(obj').info = Some(Val(last'.fetch).info)
           /\ RealUpdateEffects)]_vars

\* C3 amended: the same, with info equal to the fetched payload whose tag list,
\* for an instance, was reconciled to the owner by the save.
C3_RealUpdate ==
    [][(RealUpdate(last', obj, db) /\ obj' # None /\ Val(obj').error = None)
       => (/\ Val(obj').info =
                Some(Reconciled(kind, Val(last'.fetch).info,
                                Before(last', obj, db).owner_id))
           /\ RealUpdateEffects)]_vars

\* C3 witness: a refresh() of an instance that held older info fetched a newer
\* payload and saved it
C3_Witness ==
    /\ last.op = "refresh"
    /\ FetchReturned(last)
    /\ last.saves = 1
    /\ last.dumped = 1
    /\ Val(obj).error = None
    /\ Val(obj).mtime = Some(MaxMtime)
    /\ Val(last.fetch).info.mtime = MaxMtime
    /\ Val(db).serialized_info = Some(dumps(Val(obj).info))
    /\ kind = "VirtualMachine"
    /\ Val(obj).info # Some(Val(last.fetch).info)

\* C4: a GanetiApiError is never raised to the caller of load_info() or
\* refresh(), the load at instantiation included, whatever the entity kind.
C4_ApiErrorNeverRaised ==
    last.op \in {"new", "load", "refresh"}
    => ~(last.raised # None /\ Val(last.raised).type = "GanetiApiError")

\* C5: loading a row that is not flagged and inside the window is a pure read:
\* no remote call, no connection lookup, the store, cached and info unchanged;
\* transient fields are re-derived when info is present, error is
\* 'No Cached Info' when it is absent.
C5_LoadInsideWindowIsPureRead ==
    [][(IsLoad(last') /\ InsideWindow(Val(db), now))
       => (/\ last'.calls = <<>>
           /\ last'.resolved = 0
           /\ last'.refreshes = 0
           /\ last'.saves = 0
           /\ last'.updates = 0
           /\ last'.raised = None
           /\ db' = db
           /\ <<RAPI_CACHE', RAPI_CACHE_HASHES', nclients'>>
                = <<RAPI_CACHE, RAPI_CACHE_HASHES, nclients>>
           /\ Val(obj').cached = Val(db).cached
           /\ Val(obj').serialized_info = Val(db).serialized_info
           /\ info(Val(obj')) = loads(Val(Val(db).serialized_info))
           /\ info(Val(obj')) # None
                => /\ Val(obj').error = None
                   /\ kind # "Job" /\ Val(info(Val(obj'))).ctime # None
                        => Val(obj').ctime = Val(info(Val(obj'))).ctime
           /\ info(Val(obj')) = None
                => Val(obj').error = Some("No Cached Info"))]_vars

\* C5 witness: a load at the very end of the window found no cached info
C5_Witness ==
    /\ last.op = "load"
    /\ last.calls = <<>>
    /\ InsideWindow(Val(db), now)
    /\ now = Val(Val(db).cached) + LAZY_CACHE_REFRESH
    /\ Val(obj).error = Some("No Cached Info")

\* the fetches among the remote calls of a call
Fetches(calls) == {i \in DOMAIN calls : calls[i] = FetchCall(kind)}

\* C6: loading a persisted Cluster or VirtualMachine runs refresh() exactly
\* once, with one fetch attempt, when the row is flagged ignore_cache, or has
\* no cached time, or its cached time is older than the window; a flagged row
\* is refreshed inside the window too.
C6_LoadRefreshesOnce ==
    [][(/\ IsLoad(last')
        /\ kind \in {"Cluster", "VirtualMachine"}
        /\ ~InsideWindow(Val(db), now))
       => (/\ last'.refreshes = 1
           /\ Cardinality(Fetches(last'.calls)) = 1
           /\ last'.calls[1] = FetchCall(kind))]_vars

\* C6 witness: a flagged row inside the window was loaded and refreshed
C6_Witness ==
    /\ last.op = "load"
    /\ kind \in {"Cluster", "VirtualMachine"}
    /\ last.refreshes = 1
    /\ Val(obj).ignore_cache
    /\ Val(db).ignore_cache
    /\ last.at > 0
    /\ FetchReturned(last)
    /\ Val(db).cached = Some(now)

\* C7: constructing a record that has no id does nothing: no remote call, no
\* connection lookup, and info, cached, error and the store as they were.
C7_NewRecordDoesNothing ==
    [][last'.op = "new"
       => (/\ last'.calls = <<>>
           /\ last'.resolved = 0
           /\ last'.refreshes = 0
           /\ last'.saves = 0
           /\ last'.updates = 0
           /\ last'.raised = None
           /\ db' = db
           /\ <<RAPI_CACHE', RAPI_CACHE_HASHES', nclients'>>
                = <<RAPI_CACHE, RAPI_CACHE_HASHES, nclients>>
           /\ obj' # None
           /\ Val(obj').id = None
           /\ Val(obj').info = None
           /\ Val(obj').serialized_info = None
           /\ Val(obj').cached = None
           /\ Val(obj').error = None)]_vars

\* C7 witness: a new Job flagged ignore_cache was constructed
C7_Witness ==
    /\ last.op = "new"
    /\ kind = "Job"
    /\ Val(obj).ignore_cache
    /\ Val(obj).id = None

\* C8: whenever a load of a persisted record returns with error unset, cached is
\* set and now - cached <= LAZY_CACHE_REFRESH, whatever the entity kind.
C8_StalenessBounded ==
    (/\ last.op = "load"
     /\ last.raised = None
     /\ Val(obj).error = None)
    => (/\ Val(obj).cached # None
        /\ now - Val(Val(obj).cached) <= LAZY_CACHE_REFRESH)

(***************************************************************************)
(* Claims about the Job refresh policy, checked under Spec.                 *)
(***************************************************************************)
\* the statuses at which Job.parse_persistent_info clears the flag
ClearingStatuses == {"error", "success"}

\* a load or an explicit refresh() of a persisted Job whose fetch returned
JobFetch(l) ==
    /\ kind = "Job"
    /\ l.op \in {"load", "refresh"}
    /\ FetchReturned(l)

\* C13: a pending Job whose load or refresh() fetches status running stays
\* pending, in memory and in the store, with status = running; one that fetches
\* success or error gets that status and ignore_cache = False in memory and in
\* the store.
C13_JobStateMachine ==
    [][(JobFetch(last') /\ Before(last', obj, db).ignore_cache)
       => (/\ last'.raised = None
           /\ obj' # None
           /\ db' # None
           /\ Val(last'.fetch).info.status = "running"
                => /\ Val(obj').status = Some("running")
                   /\ Val(obj').ignore_cache
                   /\ Val(db').ignore_cache
           /\ Val(last'.fetch).info.status \in ClearingStatuses
                => /\ Val(obj').status = Some(Val(last'.fetch).info.status)
                   /\ ~Val(obj').ignore_cache
                   /\ ~Val(db').ignore_cache
                   /\ last'.updates >= 1)]_vars

\* C13 witness: a load of a pending Job has fetched success and left the
\* instance and the row terminal, by one flag update and one save
C13_Witness ==
    /\ kind = "Job"
    /\ last.op = "load"
    /\ FetchReturned(last)
    /\ Val(last.fetch).info.status = "success"
    /\ Val(obj).status = Some("success")
    /\ ~Val(obj).ignore_cache
    /\ ~Val(db).ignore_cache
    /\ last.updates = 1
    /\ last.saves = 1

\* C14: every load of a persisted Job whose row is flagged ignore_cache makes
\* exactly one GetJobStatus call, whatever the row's cached time.
C14_PendingLoadFetches ==
    [][(kind = "Job" /\ IsLoad(last') /\ Val(db).ignore_cache)
       => (/\ last'.calls = <<"GetJobStatus">>
           /\ last'.fetch # None)]_vars

\* C14 witness: a pending Job whose cached time is now was loaded, fetched
\* running and is still pending
C14_Witness ==
    /\ kind = "Job"
    /\ last.op = "load"
    /\ last.calls = <<"GetJobStatus">>
    /\ obj # None
    /\ Val(db).ignore_cache
    /\ Val(db).cached = Some(now)
    /\ now > 0
    /\ Val(obj).status = Some("running")

\* C15: once the row of a Job has ignore_cache = False, every load, refresh()
\* and save() leaves it False in the store and in memory, makes no flag
\* update, and leaves status as the instance had it before the call (unset for
\* a freshly loaded instance).
C15_TerminalIsAbsorbing ==
    [][(kind = "Job" /\ db # None /\ ~Val(db).ignore_cache)
       => (/\ db' # None
           /\ ~Val(db').ignore_cache
           /\ obj' # None => ~Val(obj').ignore_cache
           /\ last'.op \in {"load", "refresh", "save"}
                => /\ last'.updates = 0
                   /\ last'.op = "load" => Val(obj').status = None
                   /\ last'.op # "load" => Val(obj').status = Val(obj).status)]_vars

\* C15 witness: a terminal Job that holds status success was refreshed, fetched
\* running, and is still terminal with status success
C15_Witness ==
    /\ kind = "Job"
    /\ last.op = "refresh"
    /\ FetchReturned(last)
    /\ Val(last.fetch).info.status = "running"
    /\ Val(obj).status = Some("success")
    /\ ~Val(obj).ignore_cache
    /\ ~Val(db).ignore_cache
    /\ last.saves = 1

\* C16: loading a Job whose row has ignore_cache = False makes no fetch while
\* now <= cached + LAZY_CACHE_REFRESH and runs one refresh when cached is unset
\* or older than that.
C16_TerminalFollowsWindow ==
    [][(kind = "Job" /\ IsLoad(last') /\ ~Val(db).ignore_cache)
       => IF InsideWindow(Val(db), now)
          THEN last'.calls = <<>>
          ELSE last'.calls = <<"GetJobStatus">>]_vars

\* C17: a load of a pending Job that fetches a final status (success, error or
\* canceled) leaves ignore_cache = False in the store, so the Job is not
\* fetched on the next load.
C17_FinalStatusClears ==
    [][(/\ JobFetch(last')
        /\ IsLoad(last')
        /\ Val(db).ignore_cache
        /\ Val(last'.fetch).info.status \in {"success", "error", "canceled"})
       => ~Val(db').ignore_cache]_vars

Texts(rows) == {v.hostname.text : v \in rows}

Names(list) == {list[i].text : i \in DOMAIN list}

\* the call l was sync_virtual_machines(remove) and GetInstances returned
SyncReturned(l, remove) ==
    /\ l.op = "sync"
    /\ l.remove = remove
    /\ l.raised = None
    /\ l.fetch.ok

\* the call before l2 was the same sync against the same remote names
SameSyncAgain(l1, l2) ==
    /\ SyncReturned(l1, l2.remove)
    /\ l1.cluster = l2.cluster
    /\ Names(l1.fetch.names) = Names(l2.fetch.names)

\* the rows the step inserted for cluster c with hostname t
InsertedFor(c, t) ==
    {v \in virtual_machines' \ virtual_machines :
        v.cluster = c /\ v.hostname.text = t}

\* the step inserted exactly one row for each remote name that had no row, and
\* no other row
OneRowPerMissingName ==
    /\ \A t \in Names(last'.fetch.names)
                \ Texts(Rows(virtual_machines, last'.cluster)) :
          Cardinality(InsertedFor(last'.cluster, t)) = 1
    /\ Cardinality(virtual_machines' \ virtual_machines)
         = Cardinality(Names(last'.fetch.names)
                       \ Texts(Rows(virtual_machines, last'.cluster)))
    /\ last'.inserts = Cardinality(virtual_machines' \ virtual_machines)

\* the step changed no row, inserted and deleted nothing
NoOp ==
    /\ virtual_machines' = virtual_machines
    /\ pk' = pk
    /\ last'.inserts = 0
    /\ last'.deletes = 0

\* C19: sync_virtual_machines(remove=False) that got the names R from the
\* cluster leaves the cluster's hostnames equal to L union R, inserts exactly
\* one row for each name of R \ L, deletes no row, and run again against the
\* same names does nothing.
C19_SyncAddsMissing ==
    [][SyncReturned(last', FALSE)
       => (/\ Texts(Rows(virtual_machines', last'.cluster))
                = Texts(Rows(virtual_machines, last'.cluster))
                  \cup Names(last'.fetch.names)
           /\ OneRowPerMissingName
           /\ virtual_machines \subseteq virtual_machines'
           /\ last'.deletes = 0
           /\ SameSyncAgain(last, last') => NoOp)]_vars

\* C19 witness: a sync without remove inserted a row for a remote name and
\* kept the row of a hostname the cluster does not report
C19_Witness ==
    /\ SyncReturned(last, FALSE)
    /\ last.inserts = 1
    /\ Texts(Rows(virtual_machines, last.cluster)) = {"a", "b"}
    /\ Names(last.fetch.names) = {"b"}

\* C20: sync_virtual_machines(remove=True) that got the names R from the
\* cluster leaves the cluster's hostnames equal to R: the rows of L \ R are
\* deleted, by one delete, one row is inserted for each name of R \ L, and run
\* again against the same names it does nothing.
C20_SyncRemoveConverges ==
    [][SyncReturned(last', TRUE)
       => (/\ Texts(Rows(virtual_machines', last'.cluster))
                = Names(last'.fetch.names)
           /\ OneRowPerMissingName
           /\ virtual_machines \ virtual_machines'
                = {v \in Rows(virtual_machines, last'.cluster) :
                      v.hostname.text \notin Names(last'.fetch.names)}
           /\ last'.deletes
                = IF virtual_machines \ virtual_machines' = {} THEN 0 ELSE 1
           /\ SameSyncAgain(last, last') => NoOp)]_vars

\* C20 witness: a sync with remove deleted the row of a hostname the cluster no
\* longer reports and inserted a row for a new one
C20_Witness ==
    /\ SyncReturned(last, TRUE)
    /\ last.inserts = 1
    /\ last.deletes = 1
    /\ Names(last.fetch.names) = {"b"}
    /\ Texts(Rows(virtual_machines, last.cluster)) = {"b"}
    /\ pk >= 2

\* C21: sync_virtual_machines(remove=True) whose GetInstances call failed
\* deletes no row.
C21_FailedFetchDeletesNothing ==
    [][(/\ last'.op = "sync"
        /\ last'.remove
        /\ last'.raised = None
        /\ ~last'.fetch.ok)
       => (/\ virtual_machines \subseteq virtual_machines'
           /\ last'.deletes = 0)]_vars

\* the call l was a missing_in_* property
IsQuery(l) == l.op \in {"missing_in_ganeti", "missing_in_db"}

\* C22: evaluating missing_in_ganeti or missing_in_db leaves every row of
\* every table and the clusters as they were; when GetInstances returned the
\* names R, missing_in_ganeti is the cluster's hostnames that are not in R and
\* missing_in_db is the names of R that are not hostnames of the cluster, each
\* listed once.
C22_MissingAreReadOnly ==
    [][IsQuery(last')
       => (/\ virtual_machines' = virtual_machines
           /\ pk' = pk
           /\ jobs' = jobs
           /\ clusters' = clusters
           /\ (last'.raised = None /\ last'.fetch.ok)
                => /\ Len(last'.result) = Cardinality(Names(last'.result))
                   /\ last'.op = "missing_in_ganeti"
                        => Names(last'.result)
                             = Texts(Rows(virtual_machines, last'.cluster))
                               \ Names(last'.fetch.names)
                   /\ last'.op = "missing_in_db"
                        => Names(last'.result)
                             = Names(last'.fetch.names)
                               \ Texts(Rows(virtual_machines, last'.cluster)))]_vars

\* C22 witness: missing_in_ganeti listed the one hostname the cluster no longer
\* reports, with another hostname present on both sides
C22_Witness ==
    /\ last.op = "missing_in_ganeti"
    /\ last.raised = None
    /\ last.fetch.ok
    /\ Names(last.fetch.names) = {"b"}
    /\ Texts(Rows(virtual_machines, last.cluster)) = {"a", "b"}
    /\ Names(last.result) = {"a"}

(***************************************************************************)
(* Claims about discovered instances, checked under SpecDiscover.           *)
(***************************************************************************)
\* the row as VirtualMachine(cluster=self, hostname=hostname).save() wrote it:
\* no owner, no info, never refreshed
AsDiscovered(columns) ==
    /\ columns.owner_id = None
    /\ columns.serialized_info # None
    /\ loads(Val(columns.serialized_info)) = None
    /\ columns.cached = None
    /\ ~columns.ignore_cache

\* C23: every row sync_virtual_machines inserts has no owner, no info and no
\* cached time, and inserting it makes no remote call for the instance; the
\* load of a row that is still as it was inserted runs refresh() once, which
\* calls GetInstance first.
C23_DiscoveredIsLazy ==
    [][/\ last'.op = "sync"
          => /\ \A v \in virtual_machines' \ virtual_machines :
                   AsDiscovered(v.columns)
             /\ last'.created_calls = <<>>
       /\ (last'.op = "load_vm" /\ AsDiscovered(last'.before))
          => /\ last'.refreshes = 1
             /\ last'.calls # <<>>
             /\ last'.calls[1] = "GetInstance"]_vars

\* C23 witness: the first load of a discovered row fetched the instance and
\* stored its info
C23_Witness ==
    /\ last.op = "load_vm"
    /\ AsDiscovered(last.before)
    /\ last.fetch.ok
    /\ last.saves = 1
    /\ \E v \in virtual_machines :
          /\ v.id = last.id
          /\ v.columns.cached = Some(now)
          /\ loads(Val(v.columns.serialized_info)) # None

(***************************************************************************)
(* Claims about the owner tags VirtualMachine.save() writes, checked under  *)
(* SpecOwner.                                                               *)
(***************************************************************************)
\* the calls a finished call made after its fetch, and the tags they carried
TagCalls(l) == IF l.fetch # None THEN Tail(l.calls) ELSE l.calls

TagsSent(l) == IF l.fetch # None THEN Tail(l.sent) ELSE l.sent

OwnerTagsOf(tags) == {tag \in tags : IsOwnerTag(tag)}

\* the tag calls allowed to a save that finds the tags in info and owner in
\* the owner column
OwnerTagProtocol(owner, tags, names, sent) ==
    /\ names \in {<<>>, <<"DeleteInstanceTags">>, <<"AddInstanceTags">>,
                  <<"DeleteInstanceTags", "AddInstanceTags">>}
    /\ \A i \in 1..Len(names) :
          /\ names[i] = "DeleteInstanceTags"
             => /\ sent[i] # {}
                /\ sent[i] = {tag \in OwnerTagsOf(tags) : Some(TagId(tag)) # owner}
          /\ names[i] = "AddInstanceTags"
             => /\ owner # None
                /\ sent[i] = {OwnerTag(Val(owner))}
                /\ OwnerTag(Val(owner)) \notin tags
    /\ (owner # None /\ OwnerTagsOf(tags) = {OwnerTag(Val(owner))})
       => names = <<>>

\* C24: a save() of an instance that has info, called directly or by a
\* refresh() that fetched a payload, makes at most one DeleteInstanceTags call,
\* with exactly the owner tags of other owners, then at most one
\* AddInstanceTags call, with the owner's tag, made only if the owner is set
\* and its tag was absent; it makes no tag call when the owner's tag is the only
\* owner tag.
C24_OwnerTagCalls ==
    [][kind = "VirtualMachine"
       => /\ (last'.op = "save" /\ info(Val(obj)) # None)
             => OwnerTagProtocol(Val(obj).owner_id, Val(info(Val(obj))).tags,
                                 TagCalls(last'), TagsSent(last'))
          /\ (last'.op = "refresh" /\ last'.fetch # None /\ Val(last'.fetch).ok)
             => OwnerTagProtocol(Val(obj).owner_id, Val(last'.fetch).info.tags,
                                 TagCalls(last'), TagsSent(last'))
          /\ (last'.op = "load" /\ last'.fetch # None /\ Val(last'.fetch).ok)
             => OwnerTagProtocol(Val(db).owner_id, Val(last'.fetch).info.tags,
                                 TagCalls(last'), TagsSent(last'))]_vars

\* C24 witness: the owner changed from one user to another and the save
\* deleted the old owner's tag and added the new owner's, leaving the plain
\* tag alone
C24_Witness ==
    /\ kind = "VirtualMachine"
    /\ last.op = "save"
    /\ last.calls = <<"DeleteInstanceTags", "AddInstanceTags">>
    /\ last.sent = <<{OwnerTag(1)}, {OwnerTag(2)}>>
    /\ obj # None
    /\ Val(obj).owner_id = Some(2)
    /\ Val(obj).info # None
    /\ Val(Val(obj).info).tags = {OwnerTag(2), PlainTag}

\* C25: the serialized_info a save writes is the encoding of the info the
\* instance holds when the row is written.
C25_BlobNeverStale ==
    [][(last'.op \in {"save", "refresh", "load"} /\ last'.saves >= 1
        /\ obj' # None)
       => /\ db' # None
          /\ Val(db').serialized_info = Some(dumps(Val(obj').info))]_vars

\* the instance holds what its row holds
AgreesWithStore(o, row) ==
    /\ info(o) = loads(Val(row.serialized_info))
    /\ o.cached = row.cached

\* the finished refresh() fetched a payload and a tag call of its save() raised
TagCallFailed(l) ==
    /\ l.fetch # None
    /\ Val(l.fetch).ok
    /\ Len(l.calls) >= 2
    /\ l.saves = 0

\* C26: when DeleteInstanceTags or AddInstanceTags raises inside the save() of
\* a refresh(), the error is stored and the instance still holds the info and
\* cached time of its row, which the refresh left as it was.
C26_TagFailureLeavesCache ==
    [][(/\ last'.op \in {"load", "refresh"}
        /\ TagCallFailed(last')
        /\ last'.op = "refresh" => AgreesWithStore(Val(obj), Val(db)))
       => /\ obj' # None
          /\ Val(obj').error # None
          /\ db' = db
          /\ AgreesWithStore(Val(obj'), Val(db'))]_vars

(***************************************************************************)
(* Claims about concurrent refreshes, checked under SpecRefreshRace.        *)
(***************************************************************************)
BothRefreshed ==
    \A w \in Workers : At(w, "done") /\ workers[w].remote.fetch.ok

GreatestFetched ==
    CHOOSE t \in {workers[w].remote.fetch.info.mtime : w \in Workers} :
        \A w \in Workers : workers[w].remote.fetch.info.mtime <= t

\* C27: once both workers have finished a refresh whose fetch returned, the
\* stored info is the payload with the greatest mtime of the two.
C27_NewestPayloadWins ==
    BothRefreshed
    => /\ loads(Val(Val(db).serialized_info)) # None
       /\ Val(loads(Val(Val(db).serialized_info))).mtime = GreatestFetched

(***************************************************************************)
(* Claims about the fingerprint, checked under SpecRegistry.                *)
(***************************************************************************)
\* the credential tuple of a stored cluster
CredentialsOf(row) == <<row.username, row.password, row.hostname, row.port>>

\* C28: two clusters whose (username, password, hostname, port) differ have
\* different fingerprints.
C28_FingerprintIsUnique ==
    \A c1, c2 \in ClusterIds :
        CredentialsOf(clusters[c1]) # CredentialsOf(clusters[c2])
        => clusters[c1].hash # clusters[c2].hash

(***************************************************************************)
(* Claims about the denormalized fingerprint, checked under SpecHash.       *)
(***************************************************************************)
\* C29: after a Cluster.save() the cluster's hash column is the hash of its
\* credentials as stored, and every VirtualMachine and Job row of the cluster
\* has that hash in cluster_hash.
C29_HashIsDenormalized ==
    [][last'.op = "save_cluster"
       => /\ clusters'[last'.cluster].hash =
               create_hash([username |-> clusters'[last'.cluster].username,
                            password |-> clusters'[last'.cluster].password,
                            hostname |-> clusters'[last'.cluster].hostname,
                            port |-> clusters'[last'.cluster].port])
          /\ \A row \in Rows(virtual_machines', last'.cluster) :
                row.cluster_hash = clusters'[last'.cluster].hash
          /\ \A row \in Rows(jobs', last'.cluster) :
                row.cluster_hash = clusters'[last'.cluster].hash]_vars

\* C29 witness: a save changed the fingerprint of a cluster that has an
\* instance and a job, and both rows carry the new fingerprint
C29_Witness ==
    /\ last.op = "save_cluster"
    /\ last.changed
    /\ clusters[last.cluster].hash # last.previous
    /\ \E row \in Rows(virtual_machines, last.cluster) :
          row.cluster_hash = clusters[last.cluster].hash
    /\ \E row \in Rows(jobs, last.cluster) :
          row.cluster_hash = clusters[last.cluster].hash

(***************************************************************************)
(* Claims about retries, checked under Spec.                                *)
(***************************************************************************)
\* C30: a load or refresh() whose fetch fails has made that one remote call
\* and no other, and leaves the row, its cached time included, as it was, and
\* the cached time of the instance too; a load that directly follows a load
\* whose fetch failed calls the fetch again.
C30_NoRetry ==
    [][/\ (last'.op \in {"load", "refresh"} /\ FetchFailed(last'))
          => /\ last'.calls = <<FetchCall(kind)>>
             /\ db' = db
             /\ obj' # None
                => Val(obj').cached = Before(last', obj, db).cached
       /\ (IsLoad(last) /\ FetchFailed(last) /\ IsLoad(last'))
          => /\ last'.fetch # None
             /\ last'.calls[1] = FetchCall(kind)]_vars

\* C30 witness: the load of a row whose cached time is older than the window
\* failed to fetch, and the row still has that cached time
C30_Witness ==
    /\ IsLoad(last)
    /\ FetchFailed(last)
    /\ last.calls = <<FetchCall(kind)>>
    /\ db # None
    /\ Val(db).cached # None
    /\ now > Val(Val(db).cached) + LAZY_CACHE_REFRESH

(***************************************************************************)
(* Claims about the two registry maps, checked under SpecRegistry.          *)
(***************************************************************************)
\* the keys of RAPI_CACHE whose client was built for cluster c
HandlesOf(cache, c) ==
    {h \in DOMAIN cache : cache[h].host = clusters[c].hostname}

\* C37: after every get_rapi call, Cluster.save() and clear_rapi_cache(), run
\* one at a time, every fingerprint RAPI_CACHE_HASHES records is a key of
\* RAPI_CACHE and RAPI_CACHE holds at most one client per cluster; after
\* clear_rapi_cache() both maps are empty.
C37_MapsStayConsistent ==
    [][/\ \A c \in DOMAIN RAPI_CACHE_HASHES' :
             RAPI_CACHE_HASHES'[c] \in DOMAIN RAPI_CACHE'
       /\ \A c \in ClusterIds : Cardinality(HandlesOf(RAPI_CACHE', c)) <= 1
       /\ last'.op = "clear_rapi_cache"
          => (RAPI_CACHE' = <<>> /\ RAPI_CACHE_HASHES' = <<>>)]_vars

\* C37 witness: a client was built after a rotation, the previous one is gone,
\* and both clusters have their fingerprint recorded
C37_Witness ==
    /\ last.op = "get_rapi"
    /\ last.built
    /\ nclients = 3
    /\ DOMAIN RAPI_CACHE_HASHES = ClusterIds
    /\ Cardinality(DOMAIN RAPI_CACHE) = 2
    /\ \A c \in ClusterIds : RAPI_CACHE_HASHES[c] = clusters[c].hash

(***************************************************************************)
(* Claims about concurrent reconciliation, checked under SpecSyncRace.      *)
(***************************************************************************)
\* C38: when both workers have finished sync_virtual_machines on the cluster,
\* no two VirtualMachine rows of the cluster have the same hostname.
C38_NoDuplicateHostname ==
    (\A w \in Workers : At(w, "done"))
    => \A v1, v2 \in Rows(virtual_machines, TheCluster) :
          v1.hostname.text = v2.hostname.text => v1 = v2

(***************************************************************************)
(* Claims about the frame of reconciliation, checked under SpecSync.        *)
(***************************************************************************)
\* C39: sync_virtual_machines of a cluster leaves the VirtualMachine rows of
\* every other cluster as they were.
C39_SyncTouchesOwnCluster ==
    [][last'.op = "sync"
       => \A c \in ClusterIds \ {last'.cluster} :
             Rows(virtual_machines', c) = Rows(virtual_machines, c)]_vars

\* C39 witness: a sync with remove emptied cluster 1, whose inventory is
\* empty, while cluster 2 keeps its rows for the same hostnames
C39_Witness ==
    /\ last.op = "sync"
    /\ last.cluster = 1
    /\ last.remove
    /\ last.fetch.ok
    /\ last.deletes = 1
    /\ Rows(virtual_machines, 1) = {}
    /\ {v.hostname.text : v \in Rows(virtual_machines, 2)} = HostTexts

(***************************************************************************)
(* Claims about the stored modification time, checked under Spec.           *)
(***************************************************************************)
\* the modification time parsed at the real update that wrote the row
StoredMtime(row) == Val(loads(Val(row.serialized_info))).mtime

\* C40: when a Cluster or VirtualMachine whose row was written by a real
\* update is loaded from the store and its refresh() fetches the modification
\* time parsed at that update, the refresh only updates cached: no parsing,
\* no serialization, no full-record save.
C40_MtimeSurvivesStore ==
    [][(/\ kind \in {"Cluster", "VirtualMachine"}
        /\ IsLoad(last')
        /\ FetchReturned(last')
        /\ loads(Val(Val(db).serialized_info)) # None
        /\ Val(last'.fetch).info.mtime = StoredMtime(Val(db)))
       => (/\ last'.saves = 0
           /\ last'.parsed = 0
           /\ last'.dumped = 0
           /\ last'.updates = 1)]_vars

(***************************************************************************)
(* Claims about the plugins.                                                *)
(***************************************************************************)
HasReserved(items) == \E i \in DOMAIN items : items[i] \in reserved_names

FirstReserved(items) ==
    CHOOSE i \in DOMAIN items :
       /\ items[i] \in reserved_names
       /\ \A j \in 1..(i - 1) : items[j] \notin reserved_names

FromConfig(dict, key) == key \in DOMAIN dict /\ dict[key] = "config"

\* C31: update_config with a configuration that holds a reserved key raises,
\* at that key: no reserved attribute and no later key is written from the
\* mapping, manager is what it was and enabled is the flag of the
\* plugin_config.
C31_ReservedKeyRejected ==
    (last.op = "update_config" /\ HasReserved(last.config.config)) =>
       /\ last.result.raised # None
       /\ \A key \in reserved_names : ~FromConfig(last.result.dict, key)
       /\ \A i \in DOMAIN last.config.config :
             i > FirstReserved(last.config.config) =>
                ~FromConfig(last.result.dict, last.config.config[i])
       /\ last.result.dict["manager"] = last.before["manager"]
       /\ last.result.dict["enabled"] = last.config.enabled

C31_Witness ==
    /\ last.op = "update_config"
    /\ last.config.config = <<"x", "depends">>
    /\ last.result.raised # None
    /\ FromConfig(last.result.dict, "x")
    /\ "depends" \notin DOMAIN last.result.dict

\* the classes reached from the classes of S along depends
RECURSIVE Closure(_, _)
Closure(S, n) ==
    IF n = 0 THEN S
    ELSE Closure(S \cup UNION {plugins.depends[c] : c \in S}, n - 1)

\* the direct and transitive dependencies of a class
Ancestors(class_) ==
    Closure(plugins.depends[class_], Cardinality(PluginClasses))

Acyclic == \A c \in PluginClasses : c \notin Ancestors(c)

CycleReachable(class_) ==
    \E c \in {class_} \cup Ancestors(class_) : c \in Ancestors(c)

Elements(list) == {list[i] : i \in DOMAIN list}

NoRepeat(list) == \A i, j \in DOMAIN list : list[i] = list[j] => i = j

\* C32: on an acyclic graph get_depends returns the direct and transitive
\* dependencies of the class, each once, every dependency before each
\* returned class that depends on it.
C32_DependsInLoadOrder ==
    (plugins # None /\ last.op = "get_depends" /\ Acyclic) =>
       /\ ~last.result.raised
       /\ Elements(last.result.list) = Ancestors(last.class)
       /\ NoRepeat(last.result.list)
       /\ \A i, j \in DOMAIN last.result.list :
             last.result.list[j] \in Ancestors(last.result.list[i]) => j < i

C32_Witness ==
    /\ plugins # None /\ last.op = "get_depends" /\ Acyclic
    /\ Cardinality(plugins.depends[last.class]) = 2
    /\ \E p \in plugins.depends[last.class] : plugins.depends[p] # {}
    /\ Len(last.result.list) = 2

\* C33: get_depends ends for every graph of classes, raising
\* CyclicDependencyException when a cycle can be reached from the class (the
\* class depending on itself included) and returning a list otherwise.
C33_RaisesOnReachableCycle ==
    (plugins # None /\ last.op = "get_depends") =>
       (last.result.raised <=> CycleReachable(last.class))

C33_Witness ==
    /\ plugins # None /\ last.op = "get_depends"
    /\ last.class \notin Ancestors(last.class)
    /\ CycleReachable(last.class)
    /\ \A c \in PluginClasses : c \notin plugins.depends[c]
    /\ last.result.raised

\* C34: get_depended returns None without a manager, and otherwise the
\* enabled plugins that depend on the plugin directly or transitively, each
\* once, every returned plugin before the returned plugins it depends on.
C34_DependedBeforeDependencies ==
    (plugins # None /\ last.op = "get_depended" /\ Acyclic) =>
       IF last.manager = None THEN last.result.none
       ELSE /\ ~last.result.none /\ ~last.result.raised
            /\ Elements(last.result.list)
                  = {e \in Elements(last.items) : last.class \in Ancestors(e)}
            /\ NoRepeat(last.result.list)
            /\ \A i, j \in DOMAIN last.result.list :
                  last.result.list[j] \in Ancestors(last.result.list[i]) => i < j

(***************************************************************************)
(* Claims about the views.                                                  *)
(***************************************************************************)
IsMemberOf(id, user_set) == \E i \in DOMAIN user_set : user_set[i] = id

Occurrences(id, user_set) ==
    Cardinality({i \in DOMAIN user_set : user_set[i] = id})

Unprivileged(user) ==
    /\ user.is_authenticated
    /\ ~user.is_superuser
    /\ user.perms \cap {"admin", "migrate"} = {}

\* C35: every node view, asked for a node of a cluster by a logged-in user
\* who is neither superuser nor holds admin or migrate on the cluster, answers
\* 403, and the request starts no node operation, loads no job and writes no
\* log entry.
C35_UnprivilegedGets403 ==
    [][(/\ last'.op \in NodeViews
        /\ last'.cluster /\ last'.node
        /\ Unprivileged(last'.user))
          => (last'.status = 403 /\ site' = site)]_vars

C35_Witness ==
    /\ last.op = "evacuate" /\ last.method = "POST"
    /\ last.cluster /\ last.node
    /\ Unprivileged(last.user)
    /\ last.status = 403
    /\ site.log = <<>>

\* C36: a POST of add_user for a user who is already a member answers an
\* error (json) and leaves the membership as it was, the user in the group
\* once; a request of a logged-in user who is neither superuser nor admin of
\* the group answers 403 and changes nothing.
C36_AddUserIdempotent ==
    [][last'.op = "add_user" =>
          /\ (/\ last'.method = "POST"
              /\ last'.user.is_authenticated
              /\ last'.user.is_superuser \/ "admin" \in last'.user.perms
              /\ last'.data # None
              /\ IsMemberOf(Val(last'.data), site.user_set))
             => /\ last'.content_type = "application/json"
                /\ site'.user_set = site.user_set
                /\ Occurrences(Val(last'.data), site'.user_set) = 1
          /\ (/\ last'.user.is_authenticated
              /\ ~last'.user.is_superuser
              /\ "admin" \notin last'.user.perms)
             => (last'.status = 403 /\ site' = site)]_vars

C36_Witness ==
    /\ last.op = "add_user" /\ last.method = "POST"
    /\ last.data # None
    /\ IsMemberOf(Val(last.data), site.user_set)
    /\ last.content_type = "application/json"
    /\ Len(site.user_set) = 2

================================================================================
